---- MODULE Spec2Model ----
(***************************************************************************)
(* Model of the File Line Counter extension: the path filter (isIgnored,   *)
(* matchPattern), the line counter (countLines, getLineCount), and the     *)
(* workspace statistics cache of FileTreeProvider with the refresh wiring  *)
(* of activate().                                                          *)
(*                                                                         *)
(* Strings are sequences of one-character strings, so that prefix, suffix, *)
(* replace and regular-expression tests are computed as the code computes  *)
(* them.  Paths are workspace-relative with "/" separators, i.e. the value *)
(* of path.relative(workspaceRoot, p).replace(/\\/g, '/').                 *)
(***************************************************************************)
EXTENDS Integers, Sequences, FiniteSets, TLC

(***************************************************************************)
(* String helpers (JavaScript String methods used by the source).          *)
(***************************************************************************)

\* String.prototype.startsWith
StartsWith(s, p) ==
    /\ Len(p) <= Len(s)
    /\ SubSeq(s, 1, Len(p)) = p

\* String.prototype.endsWith
EndsWith(s, p) ==
    /\ Len(p) <= Len(s)
    /\ SubSeq(s, Len(s) - Len(p) + 1, Len(s)) = p

\* String.prototype.includes for a one-character needle
Includes(s, c) == \E i \in 1..Len(s) : s[i] = c

\* String.prototype.slice(n) with n >= 0 (drops the first n characters)
SliceFrom(s, n) == SubSeq(s, n + 1, Len(s))

\* String.prototype.slice(0, -n) (drops the last n characters)
SliceDropLast(s, n) == SubSeq(s, 1, Len(s) - n)

\* String.prototype.replace(/from/g, to): leftmost, non-overlapping
RECURSIVE ReplaceAll(_, _, _)
ReplaceAll(s, from, to) ==
    IF s = <<>> THEN <<>>
    ELSE IF StartsWith(s, from)
         THEN to \o ReplaceAll(SliceFrom(s, Len(from)), from, to)
         ELSE <<Head(s)>> \o ReplaceAll(Tail(s), from, to)

\* String.prototype.split('/')
RECURSIVE SplitOn(_, _)
SplitOn(s, c) ==
    IF ~Includes(s, c) THEN <<s>>
    ELSE LET i == CHOOSE k \in 1..Len(s) :
                      s[k] = c /\ \A j \in 1..(k - 1) : s[j] # c
         IN <<SubSeq(s, 1, i - 1)>> \o SplitOn(SliceFrom(s, i), c)

\* path.basename(filePath)
basename(p) ==
    LET parts == SplitOn(p, "/") IN parts[Len(parts)]

\* path.dirname for a relative path ("" for a top-level entry)
dirname(p) ==
    LET parts == SplitOn(p, "/")
    IN IF Len(parts) = 1 THEN <<>>
       ELSE SubSeq(p, 1, Len(p) - Len(parts[Len(parts)]) - 1)

(***************************************************************************)
(* Regular expressions: the subset that the two glob translations can      *)
(* produce.  A regular expression source text is parsed into atoms         *)
(* (escaped character, any character, the class [^/], literal), each       *)
(* optionally starred, and tested anchored at both ends (^...$).           *)
(***************************************************************************)

BSL == "\\"

RECURSIVE RegexParse(_)
RegexParse(r) ==
    IF r = <<>> THEN <<>>
    ELSE LET atomLen == IF r[1] = BSL /\ Len(r) >= 2 THEN 2
                        ELSE IF StartsWith(r, <<"[", "^", "/", "]">>) THEN 4
                        ELSE 1
             kind == IF atomLen = 2 THEN "lit"
                     ELSE IF atomLen = 4 THEN "notslash"
                     ELSE IF r[1] = "." THEN "any"
                     ELSE "lit"
             ch == IF atomLen = 2 THEN r[2] ELSE r[1]
             star == Len(r) > atomLen /\ r[atomLen + 1] = "*"
             used == IF star THEN atomLen + 1 ELSE atomLen
         IN <<[kind |-> kind, ch |-> ch, star |-> star]>>
                \o RegexParse(SliceFrom(r, used))

AtomAccepts(a, c) ==
    CASE a.kind = "lit" -> c = a.ch
      [] a.kind = "any" -> TRUE
      [] a.kind = "notslash" -> c # "/"

RECURSIVE RegexMatch(_, _)
RegexMatch(atoms, s) ==
    IF atoms = <<>> THEN s = <<>>
    ELSE LET a == Head(atoms) IN
         IF a.star
         THEN \/ RegexMatch(Tail(atoms), s)
              \/ (s # <<>> /\ AtomAccepts(a, Head(s)) /\ RegexMatch(atoms, Tail(s)))
         ELSE s # <<>> /\ AtomAccepts(a, Head(s)) /\ RegexMatch(Tail(atoms), Tail(s))

\* new RegExp('^' + regexPattern + '$').test(str)
RegexTest(regexPattern, str) == RegexMatch(RegexParse(regexPattern), str)

\* Nesting depth of groups after the source text r, entered at depth d;
\* -1 once a ")" closes no group.  Escaped characters and the class [^/]
\* are skipped.
RECURSIVE ParenDepth(_, _)
ParenDepth(r, d) ==
    IF r = <<>> THEN d
    ELSE IF r[1] = BSL /\ Len(r) >= 2 THEN ParenDepth(SliceFrom(r, 2), d)
    ELSE IF StartsWith(r, <<"[", "^", "/", "]">>) THEN ParenDepth(SliceFrom(r, 4), d)
    ELSE IF r[1] = "(" THEN ParenDepth(Tail(r), d + 1)
    ELSE IF r[1] = ")" THEN (IF d = 0 THEN -1 ELSE ParenDepth(Tail(r), d - 1))
    ELSE ParenDepth(Tail(r), d)

\* new RegExp('^' + regexPattern + '$') throws a SyntaxError: within the
\* subset, when a group is left open or a ")" closes nothing.
RegExpThrows(regexPattern) == ParenDepth(regexPattern, 0) # 0

(***************************************************************************)
(* Path filter: FileTreeProvider.matchPattern and FileTreeProvider.isIgnored*)
(***************************************************************************)

\* matchPattern: escape dots first, then turn every * into .*
matchPattern(str, pattern) ==
    IF Includes(pattern, "*")
    THEN LET regexPattern ==
                 ReplaceAll(ReplaceAll(pattern, <<".">>, <<BSL, ".">>),
                            <<"*">>, <<".", "*">>)
         IN RegexTest(regexPattern, str)
    ELSE str = pattern

\* matchPattern throws when its regular expression cannot be built
matchPatternThrows(pattern) ==
    /\ Includes(pattern, "*")
    /\ RegExpThrows(ReplaceAll(ReplaceAll(pattern, <<".">>, <<BSL, ".">>),
                               <<"*">>, <<".", "*">>))

\* pattern.replace(/^\//, '').replace(/\/$/, '')
CleanPattern(pattern) ==
    LET a == IF pattern # <<>> /\ Head(pattern) = "/" THEN Tail(pattern) ELSE pattern
    IN IF a # <<>> /\ a[Len(a)] = "/" THEN SliceDropLast(a, 1) ELSE a

DoubleStarMarker ==
    <<"{", "{", "D", "O", "U", "B", "L", "E", "S", "T", "A", "R", "}", "}">>

\* The general glob translation of isIgnored, in the order the code applies
\* its five replacements.
IgnoreGlobRegex(cleanPattern) ==
    LET r1 == ReplaceAll(cleanPattern, <<"*", "*">>, DoubleStarMarker)
        r2 == ReplaceAll(r1, <<"*">>, <<"[", "^", "/", "]", "*">>)
        r3 == ReplaceAll(r2, DoubleStarMarker, <<".", "*">>)
        r4 == ReplaceAll(r3, <<".">>, <<BSL, ".">>)
        r5 == ReplaceAll(r4, <<"?">>, <<".">>)
    IN r5

\* const ext = cleanPattern.slice(1) of the *.ext branch.  The faulty
\* variant slices one character further and loses the dot.
ExtSuffixSkipsDot(cleanPattern) == SliceFrom(cleanPattern, 2)
ExtSuffix(cleanPattern) == SliceFrom(cleanPattern, 1)

\* One iteration of the loop of isIgnored: TRUE when this pattern makes
\* isIgnored return true.
IgnoredByPattern(relativePath, fileName, pattern) ==
    LET cleanPattern == CleanPattern(pattern) IN
    \/ relativePath = cleanPattern
    \/ fileName = cleanPattern
    \/ StartsWith(relativePath, cleanPattern \o <<"/">>)
    \/ /\ StartsWith(cleanPattern, <<"*", "*", "/">>)
       /\ LET subPattern == SliceFrom(cleanPattern, 3) IN
          \/ matchPattern(fileName, subPattern)
          \/ matchPattern(relativePath, subPattern)
          \/ LET pathParts == SplitOn(relativePath, "/") IN
             \E i \in 1..Len(pathParts) : matchPattern(pathParts[i], subPattern)
    \/ /\ StartsWith(cleanPattern, <<"*", ".">>)
       /\ EndsWith(fileName, ExtSuffix(cleanPattern))
    \/ /\ EndsWith(cleanPattern, <<"/", "*", "*">>)
       /\ LET dirPattern == SliceDropLast(cleanPattern, 3) IN
          \/ relativePath = dirPattern
          \/ StartsWith(relativePath, dirPattern \o <<"/">>)
    \/ /\ Includes(cleanPattern, "*")
       /\ LET regexPattern == IgnoreGlobRegex(cleanPattern) IN
          \/ RegexTest(regexPattern, relativePath)
          \/ RegexTest(regexPattern, fileName)

\* One iteration of the loop of isIgnored throws: no branch before a
\* regular expression has returned true, and the expression of the **/
\* branch or of the general glob branch cannot be built.
IgnoredThrowsByPattern(relativePath, fileName, pattern) ==
    LET cleanPattern == CleanPattern(pattern)
        subPattern == SliceFrom(cleanPattern, 3)
        dirPattern == SliceDropLast(cleanPattern, 3)
        isDoubleStar == StartsWith(cleanPattern, <<"*", "*", "/">>)
    IN /\ relativePath # cleanPattern
       /\ fileName # cleanPattern
       /\ ~StartsWith(relativePath, cleanPattern \o <<"/">>)
       /\ \/ isDoubleStar /\ matchPatternThrows(subPattern)
          \/ /\ ~(/\ isDoubleStar
                   /\ \/ matchPattern(fileName, subPattern)
                      \/ matchPattern(relativePath, subPattern)
                      \/ LET pathParts == SplitOn(relativePath, "/") IN
                         \E i \in 1..Len(pathParts) :
                             matchPattern(pathParts[i], subPattern))
             /\ ~(/\ StartsWith(cleanPattern, <<"*", ".">>)
                  /\ EndsWith(fileName, ExtSuffix(cleanPattern)))
             /\ ~(/\ EndsWith(cleanPattern, <<"/", "*", "*">>)
                  /\ \/ relativePath = dirPattern
                     \/ StartsWith(relativePath, dirPattern \o <<"/">>))
             /\ Includes(cleanPattern, "*")
             /\ RegExpThrows(IgnoreGlobRegex(cleanPattern))

\* isIgnored(filePath, workspaceRoot) over the loaded deny patterns: a linear
\* scan that returns true at the first pattern that matches.  The scan ends
\* at a pattern that throws; isIgnored then returns nothing (FALSE here).
RECURSIVE IsIgnoredScan(_, _, _)
IsIgnoredScan(relativePath, fileName, patterns) ==
    IF patterns = <<>> THEN FALSE
    ELSE IF IgnoredThrowsByPattern(relativePath, fileName, Head(patterns)) THEN FALSE
    ELSE IF IgnoredByPattern(relativePath, fileName, Head(patterns)) THEN TRUE
    ELSE IsIgnoredScan(relativePath, fileName, Tail(patterns))

isIgnored(filePath, patterns) ==
    IsIgnoredScan(filePath, basename(filePath), patterns)

\* isIgnored throws: the scan reaches a pattern that throws before one that
\* matches
RECURSIVE IsIgnoredScanThrows(_, _, _)
IsIgnoredScanThrows(relativePath, fileName, patterns) ==
    IF patterns = <<>> THEN FALSE
    ELSE IF IgnoredThrowsByPattern(relativePath, fileName, Head(patterns)) THEN TRUE
    ELSE IF IgnoredByPattern(relativePath, fileName, Head(patterns)) THEN FALSE
    ELSE IsIgnoredScanThrows(relativePath, fileName, Tail(patterns))

isIgnoredThrows(filePath, patterns) ==
    IsIgnoredScanThrows(filePath, basename(filePath), patterns)

\* One iteration of the loop of isIncluded: TRUE when this allow pattern
\* makes isIncluded return true.
IncludedByPattern(relativePath, fileName, pattern) ==
    LET cleanPattern == CleanPattern(pattern) IN
    \/ relativePath = cleanPattern
    \/ fileName = cleanPattern
    \/ StartsWith(relativePath, cleanPattern \o <<"/">>)
    \/ /\ StartsWith(cleanPattern, <<"*", "*", "/">>)
       /\ LET subPattern == SliceFrom(cleanPattern, 3) IN
          \/ matchPattern(fileName, subPattern)
          \/ matchPattern(relativePath, subPattern)
    \/ /\ StartsWith(cleanPattern, <<"*", ".">>)
       /\ EndsWith(fileName, SliceFrom(cleanPattern, 1))
    \/ /\ EndsWith(cleanPattern, <<"/", "*", "*">>)
       /\ LET dirPattern == SliceDropLast(cleanPattern, 3) IN
          \/ relativePath = dirPattern
          \/ StartsWith(relativePath, dirPattern \o <<"/">>)

\* One iteration of the loop of isIncluded throws: the exact and directory
\* tests have not returned true and matchPattern of the **/ branch throws.
IncludedThrowsByPattern(relativePath, fileName, pattern) ==
    LET cleanPattern == CleanPattern(pattern) IN
    /\ relativePath # cleanPattern
    /\ fileName # cleanPattern
    /\ ~StartsWith(relativePath, cleanPattern \o <<"/">>)
    /\ StartsWith(cleanPattern, <<"*", "*", "/">>)
    /\ matchPatternThrows(SliceFrom(cleanPattern, 3))

RECURSIVE IsIncludedScan(_, _, _)
IsIncludedScan(relativePath, fileName, patterns) ==
    IF patterns = <<>> THEN FALSE
    ELSE IF IncludedThrowsByPattern(relativePath, fileName, Head(patterns)) THEN FALSE
    ELSE IF IncludedByPattern(relativePath, fileName, Head(patterns)) THEN TRUE
    ELSE IsIncludedScan(relativePath, fileName, Tail(patterns))

RECURSIVE IsIncludedScanThrows(_, _, _)
IsIncludedScanThrows(relativePath, fileName, patterns) ==
    IF patterns = <<>> THEN FALSE
    ELSE IF IncludedThrowsByPattern(relativePath, fileName, Head(patterns)) THEN TRUE
    ELSE IF IncludedByPattern(relativePath, fileName, Head(patterns)) THEN FALSE
    ELSE IsIncludedScanThrows(relativePath, fileName, Tail(patterns))

\* isIncluded(filePath, workspaceRoot): everything is included unless the
\* whitelist is active (useIncludeFile).
isIncluded(filePath, useIncludeFile, patterns) ==
    IF ~useIncludeFile THEN TRUE
    ELSE IsIncludedScan(filePath, basename(filePath), patterns)

isIncludedThrows(filePath, useIncludeFile, patterns) ==
    useIncludeFile /\ IsIncludedScanThrows(filePath, basename(filePath), patterns)

(***************************************************************************)
(* Line counter.  File content is a sequence of runs [ch, n] (character ch *)
(* repeated n >= 1 times), so that files of hundreds of lines stay small   *)
(* values.  A file system entry is a directory, a regular file with its    *)
(* content and a flag telling whether reading it succeeds, or absent.      *)
(***************************************************************************)

LF == "\n"

Run(c, k) == [ch |-> c, n |-> k]

FileEntry(content, readable) ==
    [kind |-> "file", content |-> content, readable |-> readable]
DirEntry == [kind |-> "dir", content |-> <<>>, readable |-> TRUE]
NoEntry == [kind |-> "none", content |-> <<>>, readable |-> FALSE]
\* A directory entry that cannot be examined (a symbolic link whose target
\* is missing): readdirSync lists it, statSync throws
DanglingEntry == [kind |-> "dangling", content |-> <<>>, readable |-> FALSE]

\* fs.readFileSync(filePath, 'utf-8'): the text, or an exception (missing
\* file, directory, permission or size error)
readFileSync(entry) ==
    IF entry.kind = "file" /\ entry.readable
    THEN [threw |-> FALSE, content |-> entry.content]
    ELSE [threw |-> TRUE, content |-> <<>>]

\* content.split('\n'): the segments between line feeds; a run of n line
\* feeds closes the current segment and opens n - 1 empty ones before the next
RECURSIVE SplitLF(_, _)
SplitLF(content, cur) ==
    IF content = <<>> THEN <<cur>>
    ELSE LET r == Head(content) IN
         IF r.ch = LF
         THEN <<cur>> \o [i \in 1..(r.n - 1) |-> <<>>] \o SplitLF(Tail(content), <<>>)
         ELSE SplitLF(Tail(content), Append(cur, r))

\* content.split('\n').length.  The faulty variant counts line feeds only.
SegmentCountDropsLast(content) == Len(SplitLF(content, <<>>)) - 1
SegmentCount(content) == Len(SplitLF(content, <<>>))

\* countLines(filePath) of lineCounter.ts: try { read; split; length }
\* catch { return 0 }.  The result records whether the promise rejected.
\* The faulty variant has no catch: the read error escapes.
countLinesNoCatch(entry) ==
    LET r == readFileSync(entry) IN
    IF r.threw THEN [threw |-> TRUE, value |-> -1]
    ELSE [threw |-> FALSE, value |-> SegmentCount(r.content)]
countLines(entry) ==
    LET r == readFileSync(entry) IN
    IF r.threw THEN [threw |-> FALSE, value |-> 0]
    ELSE [threw |-> FALSE, value |-> SegmentCount(r.content)]

\* LineCountDecorationProvider.getLineCount(filePath): cache lookup, else
\* read, split, store and return; 0 (not stored) when reading fails.
\* Returns the value and the cache after the call.
getLineCount(filePath, entry, cacheMap) ==
    IF filePath \in DOMAIN cacheMap
    THEN [value |-> cacheMap[filePath], cache |-> cacheMap, hit |-> TRUE]
    ELSE LET r == readFileSync(entry) IN
         IF r.threw THEN [value |-> 0, cache |-> cacheMap, hit |-> FALSE]
         ELSE LET lines == SegmentCount(r.content) IN
              [value |-> lines,
               cache |-> [p \in DOMAIN cacheMap \cup {filePath} |->
                             IF p = filePath THEN lines ELSE cacheMap[p]],
               hit |-> FALSE]

(***************************************************************************)
(* Inputs of the path filter: paths and pattern lines as character         *)
(* sequences.                                                              *)
(***************************************************************************)

Path_foo_js_map == <<"f", "o", "o", ".", "j", "s", ".", "m", "a", "p">>
Path_bar_map == <<"b", "a", "r", ".", "m", "a", "p">>
Path_mapper_js == <<"m", "a", "p", "p", "e", "r", ".", "j", "s">>
Path_map == <<"m", "a", "p">>
Path_d_x_map == <<"d", "/", "x", ".", "m", "a", "p">>
Path_a_x_b == <<"a", "/", "x", "/", "b">>
Path_a_x_y_b == <<"a", "/", "x", "/", "y", "/", "b">>
Path_a_b == <<"a", "/", "b">>
Path_dir == <<"d", "i", "r">>
Path_dir_f_ts == <<"d", "i", "r", "/", "f", ".", "t", "s">>
Path_src_out_c_js == <<"s", "r", "c", "/", "o", "u", "t", "/", "c", ".", "j", "s">>
Path_a_ts == <<"a", ".", "t", "s">>
Path_src == <<"s", "r", "c">>
Path_src_b_ts == <<"s", "r", "c", "/", "b", ".", "t", "s">>
Path_out == <<"o", "u", "t">>
Path_out_c_js == <<"o", "u", "t", "/", "c", ".", "j", "s">>
Path_logo_png == <<"l", "o", "g", "o", ".", "p", "n", "g">>
Path_src_D_TS == <<"s", "r", "c", "/", "D", ".", "T", "S">>
Pat_star_map == <<"*", ".", "m", "a", "p">>
Pat_out == <<"o", "u", "t">>
Pat_slash_out_slash == <<"/", "o", "u", "t", "/">>
Pat_dir_dstar == <<"d", "i", "r", "/", "*", "*">>
Pat_dstar_b == <<"*", "*", "/", "b">>
Pat_a_dstar_b == <<"a", "/", "*", "*", "/", "b">>
Pat_star_ts == <<"*", ".", "t", "s">>
Pat_a_star_b == <<"a", "/", "*", "/", "b">>
Pat_dir_f_ts == <<"d", "i", "r", "/", "f", ".", "t", "s">>
Pat_dstar_star_js == <<"*", "*", "/", "*", ".", "j", "s">>
\* Lines whose translation is no regular expression: an open group
Pat_paren_star == <<"(", "*">>
Pat_dstar_paren_star == <<"*", "*", "/", "(", "*">>

\* The workspace root as a relative path
Root == <<>>

MatchPaths ==
    {Path_foo_js_map, Path_bar_map, Path_mapper_js, Path_map, Path_d_x_map,
     Path_a_x_b, Path_a_x_y_b, Path_a_b, Path_dir, Path_dir_f_ts,
     Path_src_out_c_js, Path_a_ts, Path_out, Path_out_c_js}

MatchPatterns ==
    {Pat_star_map, Pat_out, Pat_slash_out_slash, Pat_dir_dstar, Pat_dstar_b,
     Pat_a_dstar_b, Pat_star_ts, Pat_a_star_b, Pat_dir_f_ts, Pat_dstar_star_js,
     Pat_paren_star, Pat_dstar_paren_star}

\* Longest deny list tried by the path-filter specification
MaxPatterns == 2

SeqsUpTo(S, n) == UNION {[1..k -> S] : k \in 0..n}

MatchPatternLists == SeqsUpTo(MatchPatterns, MaxPatterns)

(***************************************************************************)
(* Inputs of the line counter.                                             *)
(***************************************************************************)

\* Longest content, in runs, tried by the line-counter specification
MaxRuns == 2

LineRuns == {Run(c, k) : c \in {"a", LF}, k \in {1, 2, 9}}

LineEntries ==
    {FileEntry(c, r) : c \in SeqsUpTo(LineRuns, MaxRuns), r \in BOOLEAN}
        \cup {DirEntry, NoEntry}

LineCaches == {<<>>, [p \in {Path_a_ts} |-> 7]}

(***************************************************************************)
(* The workspace: a fixed directory tree with three code files whose       *)
(* content changes, the optional deny and allow pattern files, and the     *)
(* fileLineCounter settings.                                               *)
(***************************************************************************)

CodeFiles == {Path_a_ts, Path_src_b_ts, Path_out_c_js}
Dirs == {Path_src, Path_out}

\* Files that only some workspaces hold: one that is no code file, one whose
\* extension is in upper case
ExtraFiles == {Path_logo_png, Path_src_D_TS}

\* fs.readdirSync order of each directory, over the names that can exist
DirListing(dir) ==
    CASE dir = Root -> <<Path_a_ts, Path_logo_png, Path_out, Path_src>>
      [] dir = Path_src -> <<Path_src_b_ts, Path_src_D_TS>>
      [] dir = Path_out -> <<Path_out_c_js>>
      [] OTHER -> <<>>

Text10 == <<Run("a", 1), Run(LF, 9)>>
Text600 == <<Run("a", 1), Run(LF, 599)>>
Text1200 == <<Run("a", 1), Run(LF, 1199)>>

\* The code files as the workspace is opened
InitialEntry(p) ==
    CASE p = Path_a_ts -> FileEntry(Text10, TRUE)
      [] p = Path_out_c_js -> FileEntry(Text600, TRUE)
      [] p = Path_src_b_ts -> FileEntry(Text1200, TRUE)

\* What an edit turns each code file into: a.ts is emptied, out/c.js is
\* deleted, src/b.ts becomes unreadable; a second edit restores the file
EditedEntry(p) ==
    CASE p = Path_a_ts -> FileEntry(<<>>, TRUE)
      [] p = Path_out_c_js -> NoEntry
      [] p = Path_src_b_ts -> FileEntry(Text1200, FALSE)

NoPatternFile == [exists |-> FALSE, readable |-> FALSE, content |-> <<>>]
PatternFile(text) == [exists |-> TRUE, readable |-> TRUE, content |-> text]

IgnoreText_out == <<"#", " ", "b", "u", "i", "l", "d", "\n", "o", "u", "t", "\n">>
IncludeText_js == <<"*", ".", "j", "s", "\n">>

IgnoreFileStates == {NoPatternFile, PatternFile(IgnoreText_out)}
IncludeFileStates == {NoPatternFile, PatternFile(IncludeText_js)}

SummaryThresholdSettings == {0, 500}

UpperCase == <<"A", "B", "C", "D", "E", "F", "G", "H", "I", "J", "K", "L", "M", "N", "O", "P", "Q", "R", "S", "T", "U", "V", "W", "X", "Y", "Z">>
LowerCase == <<"a", "b", "c", "d", "e", "f", "g", "h", "i", "j", "k", "l", "m", "n", "o", "p", "q", "r", "s", "t", "u", "v", "w", "x", "y", "z">>

\* String.prototype.toLowerCase
toLowerCase(s) ==
    [i \in 1..Len(s) |->
        IF \E k \in 1..Len(UpperCase) : UpperCase[k] = s[i]
        THEN LowerCase[CHOOSE k \in 1..Len(UpperCase) : UpperCase[k] = s[i]]
        ELSE s[i]]

\* path.extname: from the last "." of the file name, "" when there is none
\* or when the only "." is the first character
extname(p) ==
    LET name == basename(p)
        dots == {i \in 1..Len(name) : name[i] = "."}
    IN IF dots = {} THEN <<>>
       ELSE LET last == CHOOSE i \in dots : \A j \in dots : j <= i
            IN IF last = 1 THEN <<>> ELSE SliceFrom(name, last - 1)

codeExtensions ==
    {<<".", "t", "s">>,
     <<".", "j", "s">>,
     <<".", "t", "s", "x">>,
     <<".", "j", "s", "x">>,
     <<".", "p", "y">>,
     <<".", "j", "a", "v", "a">>,
     <<".", "c">>,
     <<".", "c", "p", "p">>,
     <<".", "h">>,
     <<".", "c", "s">>,
     <<".", "g", "o">>,
     <<".", "r", "b">>,
     <<".", "p", "h", "p">>,
     <<".", "s", "w", "i", "f", "t">>,
     <<".", "k", "t">>,
     <<".", "r", "s">>,
     <<".", "v", "u", "e">>,
     <<".", "s", "v", "e", "l", "t", "e">>,
     <<".", "h", "t", "m", "l">>,
     <<".", "c", "s", "s">>,
     <<".", "s", "c", "s", "s">>,
     <<".", "l", "e", "s", "s">>,
     <<".", "j", "s", "o", "n">>,
     <<".", "y", "a", "m", "l">>,
     <<".", "y", "m", "l">>,
     <<".", "x", "m", "l">>,
     <<".", "m", "d">>,
     <<".", "t", "x", "t">>}

\* String.prototype.trim
RECURSIVE TrimLeft(_)
TrimLeft(s) ==
    IF s # <<>> /\ Head(s) \in {" ", "\t", "\r"} THEN TrimLeft(Tail(s)) ELSE s

RECURSIVE TrimRight(_)
TrimRight(s) ==
    IF s # <<>> /\ s[Len(s)] \in {" ", "\t", "\r"} THEN TrimRight(SliceDropLast(s, 1)) ELSE s

Trim(s) == TrimRight(TrimLeft(s))

\* One pattern file of loadIgnorePatterns: existsSync, readFileSync in a
\* try/catch, split('\n').map(trim).filter(l => l && !l.startsWith('#')).
\* The faulty variant keeps the comment lines.
IsPatternLineKeepsComments(l) == l # <<>>
IsPatternLine(l) == l # <<>> /\ Head(l) # "#"

PatternsOfFile(file) ==
    IF ~file.exists \/ ~file.readable THEN <<>>
    ELSE LET lines == SplitOn(file.content, LF)
             trimmed == [i \in 1..Len(lines) |-> Trim(lines[i])]
         IN SelectSeq(trimmed, IsPatternLine)

VARIABLES
    fs,                   \* content of each code file
    ignoreFile,           \* the configured deny pattern file
    includeFile,          \* the configured allow pattern file
    config,               \* fileLineCounter settings
    cachedStats,          \* FileTreeProvider.cachedStats
    ignorePatterns,       \* FileTreeProvider.ignorePatterns
    includePatterns,      \* FileTreeProvider.includePatterns
    useIncludeFile,       \* FileTreeProvider.useIncludeFile
    ignorePatternsLoaded, \* FileTreeProvider.ignorePatternsLoaded
    cache,                \* LineCountDecorationProvider.cache
    tree,                 \* paths currently listed in the files tree
    procs,                \* the invocations of getChildren in flight
    edits,                \* number of workspace or settings edits made
    pending,              \* a file watcher event awaits delivery
    hist                  \* history: what happened since the last refresh
                          \* (loads: how often the pattern files were read)
                          \* and, where tracking is on, since the last file
                          \* system event (counted, badged: the paths read
                          \* by countLines and by getLineCount; recounted,
                          \* rebadged: one of them was read again)

mainVars ==
    <<fs, ignoreFile, includeFile, config, cachedStats, ignorePatterns,
      includePatterns, useIncludeFile, ignorePatternsLoaded, cache, tree,
      procs, edits, pending, hist>>

\* Two requests of the view can be in flight: one for a summary section,
\* one for a level of the files tree
Procs == {"p1", "p2"}
RequestOf(i) == IF i = "p1" THEN "stats" ELSE "files"

\* Identities of snapshot objects: one more than the references that can
\* be live when a scan starts
ObjectIds == 1..(Cardinality(Procs) + 1)

\* Most edits of the workspace or of the settings in one behaviour
MaxEdits == 1

Null == [id |-> 0]

IdleProc ==
    [pc |-> "idle", op |-> "none", dir |-> Root, stale |-> FALSE,
     files |-> <<>>, sid |-> 0, g |-> <<>>, ret |-> Null]

\* The entry at a path: as fs records it; a directory of the tree that fs
\* does not mention is an ordinary directory, any other path is absent
EntryOf(p) ==
    IF p \in DOMAIN fs THEN fs[p]
    ELSE IF p \in Dirs THEN DirEntry
    ELSE NoEntry

\* fs.readdirSync(dir) throws: the directory cannot be read
readdirSyncThrows(dir) ==
    dir # Root /\ (EntryOf(dir).kind # "dir" \/ ~EntryOf(dir).readable)

\* fs.readdirSync(dir): the names present in the directory
readdirSync(dir) ==
    LET Present(p) == EntryOf(p).kind # "none"
    IN SelectSeq(DirListing(dir), Present)

\* fs.statSync(fullPath)
statSync(p) ==
    LET e == EntryOf(p) IN
    [threw |-> e.kind \in {"none", "dangling"},
     isDirectory |-> e.kind = "dir", isFile |-> e.kind = "file"]

\* getSummaryThreshold(): config.get('summaryThreshold') || 1000
DefaultSummaryThreshold == 1000

getSummaryThreshold(cfg) ==
    IF cfg.summaryThreshold # 0 THEN cfg.summaryThreshold ELSE DefaultSummaryThreshold

\* The body of the loop of scanDir for the entries of one directory, in
\* order; an exception of isIgnored, statSync or isIncluded leaves the loop
\* (the try encloses it, the catch ignores the error).
\* deny, useInc, allow are the pattern fields of the provider.
\* if (this.isIgnored(fullPath, workspaceRoot)) { continue; }
\* The faulty variant lets the whitelist override the deny list.
SkipsIgnoredOnlyWithoutWhitelist(ignored, useInc) == ignored /\ ~useInc
SkipsIgnored(ignored, useInc) == ignored

RECURSIVE scanDir(_, _, _, _)
RECURSIVE scanEntries(_, _, _, _)
scanEntries(entries, deny, useInc, allow) ==
    IF entries = <<>> THEN <<>>
    ELSE LET fullPath == Head(entries)
             rest == Tail(entries)
         IN IF isIgnoredThrows(fullPath, deny) THEN <<>>
            ELSE IF SkipsIgnored(isIgnored(fullPath, deny), useInc)
            THEN scanEntries(rest, deny, useInc, allow)
            ELSE LET stat == statSync(fullPath) IN
                 IF stat.threw THEN <<>>
                 ELSE IF stat.isFile /\ isIncludedThrows(fullPath, useInc, allow)
                 THEN <<>>
                 ELSE IF useInc /\ stat.isFile /\ ~isIncluded(fullPath, useInc, allow)
                 THEN scanEntries(rest, deny, useInc, allow)
                 ELSE IF stat.isDirectory
                 THEN scanDir(fullPath, deny, useInc, allow)
                          \o scanEntries(rest, deny, useInc, allow)
                 ELSE IF stat.isFile /\ toLowerCase(extname(fullPath)) \in codeExtensions
                 THEN <<fullPath>> \o scanEntries(rest, deny, useInc, allow)
                 ELSE scanEntries(rest, deny, useInc, allow)

\* scanDir(dir): readdirSync is inside the try as well
scanDir(dir, deny, useInc, allow) ==
    IF readdirSyncThrows(dir) THEN <<>>
    ELSE scanEntries(readdirSync(dir), deny, useInc, allow)

\* getAllCodeFiles(workspaceRoot)
getAllCodeFiles(deny, useInc, allow) == scanDir(Root, deny, useInc, allow)

\* Array.prototype.sort((a, b) => b.lineCount - a.lineCount): stable,
\* largest first
RECURSIVE InsertDesc(_, _)
InsertDesc(sorted, f) ==
    IF sorted = <<>> THEN <<f>>
    ELSE IF Head(sorted).lineCount >= f.lineCount
         THEN <<Head(sorted)>> \o InsertDesc(Tail(sorted), f)
         ELSE <<f>> \o sorted

\* .sort((a, b) => b.lineCount - a.lineCount).  The faulty variant leaves
\* the filtered records in scan order.
RECURSIVE SortDesc(_)
SortDescKeepsOrder(fileInfos) == fileInfos
SortDesc(fileInfos) ==
    IF fileInfos = <<>> THEN <<>>
    ELSE InsertDesc(SortDesc(SliceDropLast(fileInfos, 1)), fileInfos[Len(fileInfos)])

\* filesWithCounts.filter(f => f.lineCount >= threshold)
IsLarge(f, threshold) == f.lineCount >= threshold

LargeFilesOf(filesWithCounts, threshold) ==
    LET Keep(f) == IsLarge(f, threshold)
    IN SortDesc(SelectSeq(filesWithCounts, Keep))

\* Math.round(totalLines / n) for n > 0.  The faulty variant truncates.
MathRoundDivTruncates(total, n) == total \div n
MathRoundDiv(total, n) == (2 * total + n) \div (2 * n)

RECURSIVE SumLines(_)
SumLines(filesWithCounts) ==
    IF filesWithCounts = <<>> THEN 0
    ELSE Head(filesWithCounts).lineCount + SumLines(Tail(filesWithCounts))

\* The object assigned to cachedStats at the end of getWorkspaceStats.  id
\* is the identity of the object; g records, for the claims, the scanned
\* records and the settings and patterns that were in force.
BuildStats(id, filesWithCounts, threshold, g) ==
    [id |-> id,
     totalFiles |-> Len(filesWithCounts),
     totalLines |-> SumLines(filesWithCounts),
     averageLines |-> IF Len(filesWithCounts) > 0
                      THEN MathRoundDiv(SumLines(filesWithCounts), Len(filesWithCounts))
                      ELSE 0,
     largeFiles |-> LargeFilesOf(filesWithCounts, threshold),
     g |-> [g EXCEPT !.files = filesWithCounts]]

\* getFilesInDirectory(dirPath) rejects: readdirSync, or isIgnored or
\* isIncluded for an entry of the directory, all called outside the try,
\* throws
getFilesInDirectoryThrows(dirPath, deny, useInc, allow) ==
    LET entries == readdirSync(dirPath) IN
    \/ readdirSyncThrows(dirPath)
    \/ \E k \in 1..Len(entries) :
        \/ isIgnoredThrows(entries[k], deny)
        \/ /\ ~isIgnored(entries[k], deny)
           /\ isIncludedThrows(entries[k], useInc, allow)

\* getFilesInDirectory(dirPath): the paths of the items returned
\* (directories first, then files)
getFilesInDirectory(dirPath, deny, useInc, allow) ==
    LET Shown(p) == /\ ~isIgnored(p, deny)
                    /\ isIncluded(p, useInc, allow)
                    /\ ~statSync(p).threw
        IsDir(p) == statSync(p).isDirectory
        IsNotDir(p) == ~statSync(p).isDirectory
        shown == SelectSeq(readdirSync(dirPath), Shown)
    IN SelectSeq(shown, IsDir) \o SelectSeq(shown, IsNotDir)

Range(f) == {f[i] : i \in DOMAIN f}

VARIABLES
    probe,                \* input and result of a function under test
    ai                    \* the invocation of AiAnalysisService.analyzeWithAI

vars == <<mainVars, probe, ai>>

\* No invocation of analyzeWithAI: settings unset, nothing shown or sent
NoAi ==
    [pc |-> "idle",
     settings |-> [aiProvider |-> "", apiKey |-> <<>>, geminiApiKey |-> <<>>,
                   customUrl |-> <<>>],
     apiKey |-> <<>>, response |-> "none", requests |-> 0, warnings |-> 0,
     settingsOpened |-> 0, errors |-> 0, panels |-> 0]

NoProbe ==
    [fn |-> "none", patterns |-> <<>>, allow |-> <<>>, path |-> <<>>,
     entry |-> NoEntry, cache |-> <<>>, useInc |-> FALSE, out |-> <<>>,
     threw |-> FALSE]

(***************************************************************************)
(* Initial state: the extension has been activated, nothing is cached.     *)
(***************************************************************************)

ConfigStates ==
    [summaryThreshold : SummaryThresholdSettings,
     whitelistActive : BOOLEAN,
     ignoreListActive : BOOLEAN]

\* The settings before any edit: ignore list on, whitelist off
DefaultConfig ==
    [summaryThreshold |-> 500, whitelistActive |-> FALSE, ignoreListActive |-> TRUE]

NoHistory ==
    [completed |-> FALSE, rescanDue |-> FALSE, loads |-> 0, tracking |-> FALSE,
     counted |-> {}, recounted |-> FALSE, badged |-> {}, rebadged |-> FALSE]

\* hist after countLines has read the files of a set of paths
AfterCounting(h, paths) ==
    IF h.tracking
    THEN [h EXCEPT !.counted = @ \cup paths,
                   !.recounted = @ \/ (paths \cap h.counted # {})]
    ELSE h

\* hist after getLineCount has read the file of a path
AfterBadging(h, path) ==
    IF h.tracking
    THEN [h EXCEPT !.badged = @ \cup {path}, !.rebadged = @ \/ path \in h.badged]
    ELSE h

\* hist after a file system event or a refresh: nothing has been read since
AfterEvent(h) ==
    [h EXCEPT !.counted = {}, !.recounted = FALSE, !.badged = {}, !.rebadged = FALSE]

ProviderInit ==
    /\ fs = [p \in CodeFiles |-> InitialEntry(p)]
    /\ cachedStats = Null
    /\ ignorePatterns = <<>>
    /\ includePatterns = <<>>
    /\ useIncludeFile = FALSE
    /\ ignorePatternsLoaded = FALSE
    /\ cache = <<>>
    /\ tree = {}
    /\ procs = [i \in Procs |-> IdleProc]
    /\ edits = 0
    /\ pending = FALSE
    /\ hist = NoHistory

\* The state of the variables of the extension while a function is tested
\* on its own
MainAtRest ==
    /\ ProviderInit
    /\ ai = NoAi
    /\ ignoreFile = NoPatternFile
    /\ includeFile = NoPatternFile
    /\ config = DefaultConfig

\* The workspace holds an ignore file that lists out and an include file
\* that lists *.js
Init ==
    /\ ProviderInit
    /\ probe = NoProbe
    /\ ai = NoAi
    /\ ignoreFile = PatternFile(IgnoreText_out)
    /\ includeFile = PatternFile(IncludeText_js)
    /\ config = DefaultConfig

(***************************************************************************)
(* FileTreeProvider: getChildren -> getWorkspaceStats, one step per        *)
(* stretch of code between two awaits.  While an invocation is suspended   *)
(* at an await, another invocation, the watcher handler, the refresh       *)
(* command and edits of the workspace may run.                             *)
(***************************************************************************)

\* The identity of a newly allocated snapshot object: one that no live
\* reference holds
LiveIds ==
    {cachedStats.id} \cup {procs[i].sid : i \in Procs} \cup {procs[i].ret.id : i \in Procs}

FreshId == CHOOSE id \in ObjectIds \ LiveIds : \A other \in ObjectIds \ LiveIds : id <= other

\* loadIgnorePatterns(): returns at once when the patterns are loaded
loadIgnorePatterns ==
    IF ignorePatternsLoaded
    THEN UNCHANGED <<ignorePatterns, includePatterns, useIncludeFile, ignorePatternsLoaded>>
    ELSE /\ ignorePatterns' = IF config.ignoreListActive
                              THEN PatternsOfFile(ignoreFile) ELSE <<>>
         /\ includePatterns' = IF config.whitelistActive
                               THEN PatternsOfFile(includeFile) ELSE <<>>
         /\ useIncludeFile' = config.whitelistActive
         /\ ignorePatternsLoaded' = TRUE

\* if (this.cachedStats) { return this.cachedStats; }
\* The faulty variant never finds the cache filled.
HasCachedStatsNever(stats) == FALSE
HasCachedStats(stats) == stats # Null

\* What follows getWorkspaceStats in getChildItems: the files branches go
\* on to getFilesInDirectory, the summary branches build their items
AfterStats(op) == IF op = "files" THEN "list" ELSE "render"

\* getChildItems(parent) up to the first await inside getWorkspaceStats:
\* the cache test, and on a miss the synchronous body of loadIgnorePatterns.
\* op is "stats" (summary, largeFiles, recommendations) or "files"
\* (filesRoot or a directory item of the tree).
Call(i, op, dir) ==
    /\ procs[i].pc = "idle"
    /\ op = RequestOf(i)
    /\ op = "files" => (dir = Root \/ dir \in (tree \cap Dirs))
    /\ op = "stats" => dir = Root
    /\ IF HasCachedStats(cachedStats)
       THEN /\ procs' = [procs EXCEPT ![i] =
                            [IdleProc EXCEPT !.op = op, !.dir = dir,
                                             !.ret = cachedStats,
                                             !.pc = AfterStats(op)]]
            /\ hist' = [hist EXCEPT !.completed = TRUE, !.rescanDue = FALSE]
            /\ UNCHANGED <<ignorePatterns, includePatterns, useIncludeFile,
                           ignorePatternsLoaded>>
       ELSE /\ loadIgnorePatterns
            /\ procs' = [procs EXCEPT ![i] =
                            [IdleProc EXCEPT !.op = op, !.dir = dir,
                                             !.pc = "walk", !.sid = FreshId]]
            /\ hist' = [hist EXCEPT !.rescanDue = FALSE,
                                    !.loads = IF ignorePatternsLoaded THEN @ ELSE @ + 1]
    /\ UNCHANGED <<fs, ignoreFile, includeFile, config, cachedStats, cache, tree,
                   edits, pending, probe, ai>>

\* const allFiles = await this.getAllCodeFiles(workspaceRoot)
Walk(i) ==
    /\ procs[i].pc = "walk"
    /\ procs' = [procs EXCEPT ![i] =
                    [@ EXCEPT !.pc = "count",
                              !.files = getAllCodeFiles(ignorePatterns, useIncludeFile,
                                                        includePatterns),
                              !.g = [files |-> <<>>, cfgThreshold |-> 0,
                                     deny |-> ignorePatterns,
                                     allow |-> includePatterns,
                                     useInc |-> useIncludeFile]]]
    /\ UNCHANGED <<fs, ignoreFile, includeFile, config, cachedStats, ignorePatterns,
                   includePatterns, useIncludeFile, ignorePatternsLoaded, cache,
                   tree, edits, pending, hist, probe, ai>>

\* filesWithCounts after the counting loop over allFiles[k..]: each file is
\* read by countLines when its turn comes
RECURSIVE CountAll(_, _)
CountAll(allFiles, k) ==
    IF k > Len(allFiles) THEN <<>>
    ELSE <<[path |-> allFiles[k],
            name |-> basename(allFiles[k]),
            lineCount |-> countLines(EntryOf(allFiles[k])).value]>>
             \o CountAll(allFiles, k + 1)

\* The rest of getWorkspaceStats: the threshold is read, the files are
\* counted, the snapshot is built, cached and returned.  The counting loop
\* awaits countLines once per file; it only reads files and appends to a
\* local array, so its iterations are taken together.
Count(i) ==
    LET p == procs[i]
        threshold == getSummaryThreshold(config)
        g == [p.g EXCEPT !.cfgThreshold = config.summaryThreshold]
        stats == BuildStats(p.sid, CountAll(p.files, 1), threshold, g)
    IN /\ p.pc = "count"
       /\ cachedStats' = stats
       /\ procs' = [procs EXCEPT ![i] =
                       [IdleProc EXCEPT !.op = p.op, !.dir = p.dir,
                                        !.stale = p.stale, !.sid = p.sid,
                                        !.ret = stats,
                                        !.pc = AfterStats(p.op)]]
       /\ hist' = AfterCounting([hist EXCEPT !.completed = TRUE], Range(p.files))
       /\ UNCHANGED <<fs, ignoreFile, includeFile, config, ignorePatterns,
                      includePatterns, useIncludeFile, ignorePatternsLoaded, cache,
                      tree, edits, pending, probe, ai>>

\* The summary branches of getChildItems: items are built from stats and
\* returned
Render(i) ==
    /\ procs[i].pc = "render"
    /\ procs' = [procs EXCEPT ![i] = IdleProc]
    /\ UNCHANGED <<fs, ignoreFile, includeFile, config, cachedStats, ignorePatterns,
                   includePatterns, useIncludeFile, ignorePatternsLoaded, cache,
                   tree, edits, pending, hist, probe, ai>>

\* return this.getFilesInDirectory(...): the items reach the view unless a
\* refresh has invalidated the request meanwhile
List(i) ==
    LET p == procs[i] IN
    /\ p.pc = "list"
    /\ tree' = IF p.stale \/ getFilesInDirectoryThrows(p.dir, ignorePatterns,
                                                       useIncludeFile, includePatterns)
               THEN tree
               ELSE tree \cup Range(getFilesInDirectory(p.dir, ignorePatterns,
                                                        useIncludeFile, includePatterns))
    /\ procs' = [procs EXCEPT ![i] = IdleProc]
    /\ hist' = IF getFilesInDirectoryThrows(p.dir, ignorePatterns, useIncludeFile,
                                            includePatterns)
               THEN hist
               ELSE AfterCounting(hist,
                        {f \in Range(getFilesInDirectory(p.dir, ignorePatterns,
                                                         useIncludeFile, includePatterns)) :
                            ~statSync(f).isDirectory})
    /\ UNCHANGED <<fs, ignoreFile, includeFile, config, cachedStats, ignorePatterns,
                   includePatterns, useIncludeFile, ignorePatternsLoaded, cache,
                   edits, pending, probe, ai>>

(***************************************************************************)
(* LineCountDecorationProvider.provideFileDecoration                       *)
(***************************************************************************)

DecoratedPaths == {Path_a_ts, Path_src}

ProvideFileDecoration(path) ==
    /\ cache' = IF statSync(path).isFile
                THEN getLineCount(path, EntryOf(path), cache).cache
                ELSE cache
    /\ hist' = IF statSync(path).isFile /\ ~getLineCount(path, EntryOf(path), cache).hit
               THEN AfterBadging(hist, path)
               ELSE hist
    /\ UNCHANGED <<fs, ignoreFile, includeFile, config, cachedStats, ignorePatterns,
                   includePatterns, useIncludeFile, ignorePatternsLoaded, tree,
                   procs, edits, pending, probe, ai>>

(***************************************************************************)
(* activate(): the refresh command and the file system watcher             *)
(***************************************************************************)

\* decorationProvider.refresh(); fileTreeProvider.refresh();
\* firing onDidChangeTreeData makes the view drop its items and the
\* requests for levels of the files tree that it has in flight.
RefreshBoth ==
    /\ cache' = <<>>
    /\ cachedStats' = Null
    /\ ignorePatternsLoaded' = FALSE
    /\ tree' = {}
    /\ procs' = [i \in Procs |->
                    IF procs[i].pc # "idle" /\ procs[i].op = "files"
                    THEN [procs[i] EXCEPT !.stale = TRUE] ELSE procs[i]]

WatcherEvent ==
    /\ pending
    /\ pending' = FALSE
    /\ RefreshBoth
    /\ hist' = [NoHistory EXCEPT !.rescanDue = TRUE, !.tracking = hist.tracking]
    /\ UNCHANGED <<fs, ignoreFile, includeFile, config, ignorePatterns,
                   includePatterns, useIncludeFile, edits, probe, ai>>

RefreshCommand ==
    /\ RefreshBoth
    /\ hist' = AfterEvent([hist EXCEPT !.completed = FALSE, !.loads = 0])
    /\ UNCHANGED <<fs, ignoreFile, includeFile, config, ignorePatterns,
                   includePatterns, useIncludeFile, edits, pending, probe, ai>>

(***************************************************************************)
(* The environment: edits of files, of the pattern files, of the settings  *)
(***************************************************************************)

FsChange(path) ==
    /\ edits < MaxEdits
    /\ fs' = [fs EXCEPT ![path] = IF @ = InitialEntry(path) THEN EditedEntry(path)
                                   ELSE InitialEntry(path)]
    /\ edits' = edits + 1
    /\ pending' = TRUE
    /\ hist' = AfterEvent(hist)
    /\ UNCHANGED <<ignoreFile, includeFile, config, cachedStats, ignorePatterns,
                   includePatterns, useIncludeFile, ignorePatternsLoaded, cache,
                   tree, procs, probe, ai>>

PatternFileChange(ig, inc) ==
    /\ edits < MaxEdits
    /\ (ig # ignoreFile /\ inc = includeFile) \/ (ig = ignoreFile /\ inc # includeFile)
    /\ ignoreFile' = ig
    /\ includeFile' = inc
    /\ edits' = edits + 1
    /\ pending' = TRUE
    /\ hist' = AfterEvent(hist)
    /\ UNCHANGED <<fs, config, cachedStats, ignorePatterns, includePatterns,
                   useIncludeFile, ignorePatternsLoaded, cache, tree, procs,
                   probe, ai>>

ConfigChange(c) ==
    /\ edits < MaxEdits
    /\ Cardinality({k \in DOMAIN c : c[k] # config[k]}) = 1
    /\ config' = c
    /\ edits' = edits + 1
    /\ UNCHANGED <<fs, ignoreFile, includeFile, cachedStats, ignorePatterns,
                   includePatterns, useIncludeFile, ignorePatternsLoaded, cache,
                   tree, procs, pending, hist, probe, ai>>

Next ==
    \/ \E i \in Procs, op \in {"stats", "files"}, dir \in {Root} \cup Dirs : Call(i, op, dir)
    \/ \E i \in Procs : Walk(i)
    \/ \E i \in Procs : Count(i)
    \/ \E i \in Procs : Render(i)
    \/ \E i \in Procs : List(i)
    \/ \E path \in DecoratedPaths : ProvideFileDecoration(path)
    \/ WatcherEvent
    \/ RefreshCommand
    \/ \E path \in CodeFiles : FsChange(path)
    \/ \E ig \in IgnoreFileStates, inc \in IncludeFileStates : PatternFileChange(ig, inc)
    \/ \E c \in ConfigStates : ConfigChange(c)

Spec == Init /\ [][Next]_vars

\* The same extension, with the reads of countLines and getLineCount
\* recorded in hist
InitMemo ==
    /\ fs = [p \in CodeFiles |-> InitialEntry(p)]
    /\ ignoreFile = PatternFile(IgnoreText_out)
    /\ includeFile = PatternFile(IncludeText_js)
    /\ config = DefaultConfig
    /\ cachedStats = Null
    /\ ignorePatterns = <<>>
    /\ includePatterns = <<>>
    /\ useIncludeFile = FALSE
    /\ ignorePatternsLoaded = FALSE
    /\ cache = <<>>
    /\ tree = {}
    /\ procs = [i \in Procs |-> IdleProc]
    /\ edits = 0
    /\ pending = FALSE
    /\ hist = [NoHistory EXCEPT !.tracking = TRUE]
    /\ probe = NoProbe
    /\ ai = NoAi

SpecMemo == InitMemo /\ [][Next]_vars

(***************************************************************************)
(* Claims about the statistics cache and the snapshot.                     *)
(***************************************************************************)

\* C1: when getWorkspaceStats is called and a call has completed with no
\* refresh since, the call returns the very object held in cachedStats, leaves
\* the cache as it is, and goes on without a directory walk or line counting.
C1_CachedSnapshotReturned ==
    [][\A i \in Procs :
          (procs[i].pc = "idle" /\ procs'[i].pc # "idle" /\ hist.completed) =>
              /\ cachedStats # Null
              /\ procs'[i].ret = cachedStats
              /\ cachedStats' = cachedStats
              /\ procs'[i].pc \in {"render", "list"}]_vars

\* C1 witness: a call has been answered from the cache (it started no scan of
\* its own) with the object that cachedStats holds
C1_Witness ==
    \E i \in Procs :
        /\ procs[i].pc \in {"render", "list"}
        /\ procs[i].sid = 0
        /\ cachedStats # Null
        /\ procs[i].ret = cachedStats

\* C2: every file system event clears both caches (cachedStats null, patterns
\* not loaded, decoration cache empty) and the next getWorkspaceStats call
\* performs a full rescan.
C2_EventClearsAndRescans ==
    [][/\ (pending /\ ~pending') =>
              (cachedStats' = Null /\ ~ignorePatternsLoaded' /\ cache' = <<>>)
       /\ \A i \in Procs :
              (procs[i].pc = "idle" /\ procs'[i].pc # "idle" /\ hist.rescanDue) =>
                  procs'[i].pc = "walk"]_vars

\* The directories above a path, the workspace root excluded
RECURSIVE Ancestors(_)
Ancestors(p) ==
    IF dirname(p) = Root THEN {} ELSE {dirname(p)} \cup Ancestors(dirname(p))

ScannedPaths(stats) == {stats.g.files[k].path : k \in 1..Len(stats.g.files)}

\* C3: deny takes precedence over allow: no path that isIgnored holds of, or
\* that lies under a directory that isIgnored holds of, is in the snapshot
\* (under the patterns its scan used) or in the files tree.
C3_DenyBeatsAllow ==
    /\ cachedStats # Null =>
           \A f \in ScannedPaths(cachedStats) : \A q \in {f} \cup Ancestors(f) :
               ~isIgnored(q, cachedStats.g.deny)
    /\ \A p \in tree : \A q \in {p} \cup Ancestors(p) : ~isIgnored(q, ignorePatterns)

\* C3 witness: a snapshot built with the whitelist active, while out/c.js
\* exists, lies under the denied directory out and matches an allow pattern
C3_Witness ==
    /\ cachedStats # Null
    /\ cachedStats.g.useInc
    /\ fs[Path_out_c_js].kind = "file"
    /\ isIgnored(Path_out, cachedStats.g.deny)
    /\ IsIncludedScan(Path_out_c_js, basename(Path_out_c_js), cachedStats.g.allow)
    /\ Path_out_c_js \notin ScannedPaths(cachedStats)

InSeq(x, seq) == \E k \in 1..Len(seq) : seq[k] = x

\* C4: a scanned file record is in largeFiles if and only if its lineCount is
\* at least the summaryThreshold setting in force when the snapshot was built,
\* for every non-negative setting.
C4_LargeIffAtThreshold ==
    cachedStats # Null =>
        \A k \in 1..Len(cachedStats.g.files) :
            LET f == cachedStats.g.files[k] IN
            InSeq(f, cachedStats.largeFiles) <=> f.lineCount >= cachedStats.g.cfgThreshold

LineCountsOf(fileInfos) == [k \in 1..Len(fileInfos) |-> fileInfos[k].lineCount]

\* C5: largeFiles is ordered by lineCount, largest first; files of 10, 600 and
\* 1200 lines with threshold 500 give the 1200-line file, then the 600-line one.
C5_LargestFirst ==
    cachedStats # Null =>
        /\ \A k \in 1..(Len(cachedStats.largeFiles) - 1) :
               cachedStats.largeFiles[k].lineCount >= cachedStats.largeFiles[k + 1].lineCount
        /\ (/\ Len(cachedStats.g.files) = 3
            /\ Range(LineCountsOf(cachedStats.g.files)) = {10, 600, 1200}
            /\ cachedStats.g.cfgThreshold = 500)
           => LineCountsOf(cachedStats.largeFiles) = <<1200, 600>>

\* C5 witness: the snapshot of the 10, 600 and 1200 line files, threshold 500
C5_Witness ==
    /\ cachedStats # Null
    /\ LineCountsOf(cachedStats.g.files) = <<10, 600, 1200>>
    /\ cachedStats.g.cfgThreshold = 500
    /\ LineCountsOf(cachedStats.largeFiles) = <<1200, 600>>

RECURSIVE SumFirst(_, _)
SumFirst(counts, k) == IF k = 0 THEN 0 ELSE SumFirst(counts, k - 1) + counts[k]

Abs(x) == IF x < 0 THEN -x ELSE x

\* C6: totalFiles is the number of scanned records, totalLines the sum of
\* their lineCounts, averageLines their quotient rounded to the nearest
\* integer, a half going up as Math.round does (603 for 10 + 600 + 1200 over
\* 3 files), and 0 when there is no file.
C6_TotalsAndAverage ==
    cachedStats # Null =>
        LET counts == LineCountsOf(cachedStats.g.files)
            n == Len(counts)
            total == SumFirst(counts, n)
        IN /\ cachedStats.totalFiles = n
           /\ cachedStats.totalLines = total
           /\ n = 0 => cachedStats.averageLines = 0
           /\ n > 0 => /\ 2 * Abs(total - n * cachedStats.averageLines) <= n
                       /\ 2 * (total - n * cachedStats.averageLines) # n
           /\ (n = 3 /\ Range(counts) = {10, 600, 1200}) => cachedStats.averageLines = 603

\* C6 witness: the snapshot of the 10, 600 and 1200 line files
C6_Witness ==
    /\ cachedStats # Null
    /\ cachedStats.totalFiles = 3
    /\ cachedStats.totalLines = 1810
    /\ cachedStats.averageLines = 603

(***************************************************************************)
(* SpecMatch: isIgnored and isIncluded applied to every pattern list and   *)
(* path of the bounded input sets.                                         *)
(***************************************************************************)

InitMatch ==
    /\ MainAtRest
    /\ \E ps \in MatchPatternLists, x \in MatchPaths :
        probe = [NoProbe EXCEPT !.fn = "matchInput", !.patterns = ps, !.path = x]

ApplyIsIgnored ==
    /\ probe.fn = "matchInput"
    /\ probe' = [probe EXCEPT !.fn = "isIgnored",
                              !.out = isIgnored(probe.path, probe.patterns),
                              !.threw = isIgnoredThrows(probe.path, probe.patterns)]
    /\ UNCHANGED <<mainVars, ai>>

\* isIncluded with the list as includePatterns and either value of
\* useIncludeFile
ApplyIsIncluded(useInc) ==
    /\ probe.fn = "matchInput"
    /\ probe' = [probe EXCEPT !.fn = "isIncluded",
                              !.useInc = useInc,
                              !.out = isIncluded(probe.path, useInc, probe.patterns),
                              !.threw = isIncludedThrows(probe.path, useInc,
                                                         probe.patterns)]
    /\ UNCHANGED <<mainVars, ai>>

NextMatch ==
    \/ ApplyIsIgnored
    \/ \E useInc \in BOOLEAN : ApplyIsIncluded(useInc)

SpecMatch == InitMatch /\ [][NextMatch]_vars

(***************************************************************************)
(* SpecLines: countLines and getLineCount applied to every file system     *)
(* entry of the bounded input set.                                         *)
(***************************************************************************)

InitLines ==
    /\ MainAtRest
    /\ \E e \in LineEntries, c \in LineCaches :
        probe = [NoProbe EXCEPT !.fn = "lineInput", !.path = Path_a_ts,
                                !.entry = e, !.cache = c]

ApplyCountLines ==
    /\ probe.fn = "lineInput"
    /\ probe' = [probe EXCEPT !.fn = "countLines", !.out = countLines(probe.entry)]
    /\ UNCHANGED <<mainVars, ai>>

ApplyGetLineCount ==
    /\ probe.fn = "lineInput"
    /\ probe' = [probe EXCEPT !.fn = "getLineCount",
                              !.out = getLineCount(probe.path, probe.entry, probe.cache)]
    /\ UNCHANGED <<mainVars, ai>>

NextLines == ApplyCountLines \/ ApplyGetLineCount

SpecLines == InitLines /\ [][NextLines]_vars

(***************************************************************************)
(* SpecAi: one invocation of AiAnalysisService.analyzeWithAI under every   *)
(* setting of the provider, of the two API keys and of the custom URL,     *)
(* with every kind of answer of the endpoint.                              *)
(***************************************************************************)

\* config.get('aiProvider') || 'Gemini'
getAiProvider(settings) ==
    IF settings.aiProvider # "" THEN settings.aiProvider ELSE "Gemini"

\* if (provider === 'Gemini') of getApiKey: the legacy setting is a fallback
\* for Gemini alone.  The faulty variant applies it to every provider.
LegacyKeyAppliesAlways(provider) == TRUE
LegacyKeyApplies(provider) == provider = "Gemini"

\* if (!apiKey) of analyzeWithAI.  The faulty variant never finds the key
\* missing.
NoApiKeyNever(apiKey) == FALSE
NoApiKey(apiKey) == apiKey = <<>>

\* getApiKey(provider): the general key unless blank, for Gemini the legacy
\* key unless blank, otherwise undefined (the empty string here)
getApiKey(settings, provider) ==
    IF settings.apiKey # <<>> /\ Trim(settings.apiKey) # <<>> THEN settings.apiKey
    ELSE IF LegacyKeyApplies(provider)
         THEN IF settings.geminiApiKey # <<>> /\ Trim(settings.geminiApiKey) # <<>>
              THEN settings.geminiApiKey ELSE <<>>
         ELSE <<>>

\* if (!response.ok) { throw new Error(...) } after each fetch of callAiApi.
\* The faulty variant never throws on the status.
ThrowsOnStatusNever(response) == FALSE
ThrowsOnStatus(response) == response = "notOk"

InitAi ==
    /\ ProviderInit
    /\ probe = NoProbe
    /\ ignoreFile = PatternFile(IgnoreText_out)
    /\ includeFile = PatternFile(IncludeText_js)
    /\ config = DefaultConfig
    /\ \E settings \in [aiProvider : {"", "Gemini", "Anthropic", "OpenAI", "Custom"},
                         apiKey : {<<>>, <<" ">>, <<"k">>},
                         geminiApiKey : {<<>>, <<" ">>, <<"g">>},
                         customUrl : {<<>>, <<"u">>}] :
           ai = [NoAi EXCEPT !.settings = settings]

\* analyzeWithAI up to its first await: without a key the warning is shown,
\* with a key withProgress runs the task, which awaits getWorkspaceStats
AnalyzeWithAI ==
    /\ ai.pc = "idle"
    /\ LET provider == getAiProvider(ai.settings)
           apiKey == getApiKey(ai.settings, provider)
       IN ai' = IF NoApiKey(apiKey)
                THEN [ai EXCEPT !.pc = "warned", !.warnings = @ + 1]
                ELSE [ai EXCEPT !.pc = "stats", !.apiKey = apiKey]
    /\ UNCHANGED <<mainVars, probe>>

\* The user answers the warning: the settings are opened when the answer is
\* the Open Settings button; analyzeWithAI returns
WarningAnswer(configure) ==
    /\ ai.pc = "warned"
    /\ ai' = [ai EXCEPT !.pc = "done",
                        !.settingsOpened = IF configure = "openSettings"
                                           THEN @ + 1 ELSE @]
    /\ UNCHANGED <<mainVars, probe>>

\* const stats = await this.fileTreeProvider.getWorkspaceStats(): the cached
\* snapshot, or a scan of the workspace that stores a new one
AiGetWorkspaceStats ==
    /\ ai.pc = "stats"
    /\ ai' = [ai EXCEPT !.pc = "call"]
    /\ IF HasCachedStats(cachedStats)
       THEN UNCHANGED <<cachedStats, ignorePatterns, includePatterns, useIncludeFile,
                        ignorePatternsLoaded, hist>>
       ELSE /\ loadIgnorePatterns
            /\ hist' = AfterCounting(
                           [hist EXCEPT !.completed = TRUE, !.rescanDue = FALSE,
                                        !.loads = IF ignorePatternsLoaded THEN @ ELSE @ + 1],
                           Range(getAllCodeFiles(ignorePatterns', useIncludeFile',
                                                 includePatterns')))
            /\ cachedStats' =
                   BuildStats(FreshId,
                              CountAll(getAllCodeFiles(ignorePatterns', useIncludeFile',
                                                       includePatterns'), 1),
                              getSummaryThreshold(config),
                              [files |-> <<>>, cfgThreshold |-> config.summaryThreshold,
                               deny |-> ignorePatterns', allow |-> includePatterns',
                               useInc |-> useIncludeFile'])
    /\ UNCHANGED <<fs, ignoreFile, includeFile, config, cache, tree, procs, edits,
                   pending, probe>>

\* callAiApi up to its fetch: every provider sends one request, except
\* Custom without a custom URL, which throws before any request; the catch
\* of analyzeWithAI shows the error
CallAiApi ==
    /\ ai.pc = "call"
    /\ LET provider == getAiProvider(ai.settings) IN
       ai' = IF provider = "Custom" /\ Trim(ai.settings.customUrl) = <<>>
             THEN [ai EXCEPT !.pc = "done", !.errors = @ + 1]
             ELSE [ai EXCEPT !.pc = "fetch", !.requests = @ + 1]
    /\ UNCHANGED <<mainVars, probe>>

\* The fetch settles.  "ok": a success status and a body that parses, the
\* panel is shown; "notOk": a status outside 200..299, callAiApi throws;
\* "badBody": response.json() throws; "rejected": fetch itself rejects.
\* Whatever is thrown reaches the catch of analyzeWithAI, which shows one
\* error message.
AiResponse(response) ==
    /\ ai.pc = "fetch"
    /\ ai' = IF ThrowsOnStatus(response) \/ response \in {"badBody", "rejected"}
             THEN [ai EXCEPT !.pc = "done", !.response = response, !.errors = @ + 1]
             ELSE [ai EXCEPT !.pc = "done", !.response = response, !.panels = @ + 1]
    /\ UNCHANGED <<mainVars, probe>>

NextAi ==
    \/ AnalyzeWithAI
    \/ \E configure \in {"openSettings", "dismissed"} : WarningAnswer(configure)
    \/ AiGetWorkspaceStats
    \/ CallAiApi
    \/ \E response \in {"ok", "notOk", "badBody", "rejected"} : AiResponse(response)

SpecAi == InitAi /\ [][NextAi]_vars

(***************************************************************************)
(* SpecScan: getAllCodeFiles and getFilesInDirectory applied to bounded    *)
(* workspaces (entries that cannot be examined, a directory that cannot be *)
(* read, a file that is no code file, an extension in upper case) under    *)
(* bounded deny and allow lists.                                           *)
(***************************************************************************)

UnreadableDir == [kind |-> "dir", content |-> <<>>, readable |-> FALSE]

ScanEntryStates(p) ==
    IF p \in CodeFiles THEN {InitialEntry(p), DanglingEntry}
    ELSE IF p \in ExtraFiles THEN {FileEntry(Text10, TRUE), NoEntry}
    ELSE {DirEntry, UnreadableDir}

ScanWorkspaces ==
    {w \in [CodeFiles \cup ExtraFiles \cup {Path_src} ->
                {InitialEntry(p) : p \in CodeFiles}
                    \cup {DanglingEntry, FileEntry(Text10, TRUE), NoEntry,
                          DirEntry, UnreadableDir}] :
        \A p \in DOMAIN w : w[p] \in ScanEntryStates(p)}

ScanDenyLists ==
    {<<>>, <<Pat_out>>, <<Pat_star_ts>>, <<Pat_paren_star>>,
     <<Pat_out, Pat_paren_star>>}

ScanAllowLists == {<<>>, <<Pat_dstar_star_js>>, <<Pat_dstar_paren_star>>}

InitScan ==
    /\ fs \in ScanWorkspaces
    /\ ai = NoAi
    /\ ignoreFile = NoPatternFile
    /\ includeFile = NoPatternFile
    /\ config = DefaultConfig
    /\ cachedStats = Null
    /\ ignorePatterns = <<>>
    /\ includePatterns = <<>>
    /\ useIncludeFile = FALSE
    /\ ignorePatternsLoaded = FALSE
    /\ cache = <<>>
    /\ tree = {}
    /\ procs = [i \in Procs |-> IdleProc]
    /\ edits = 0
    /\ pending = FALSE
    /\ hist = NoHistory
    /\ \E deny \in ScanDenyLists, useInc \in BOOLEAN, allow \in ScanAllowLists :
        /\ (~useInc => allow = <<>>)
        /\ probe = [NoProbe EXCEPT !.fn = "scanInput", !.patterns = deny,
                                   !.useInc = useInc, !.allow = allow]

\* getAllCodeFiles never throws: each scanDir catches what its loop throws
ApplyGetAllCodeFiles ==
    /\ probe.fn = "scanInput"
    /\ probe' = [probe EXCEPT !.fn = "getAllCodeFiles",
                              !.out = getAllCodeFiles(probe.patterns, probe.useInc,
                                                      probe.allow),
                              !.threw = FALSE]
    /\ UNCHANGED <<mainVars, ai>>

ApplyGetFilesInDirectory(dir) ==
    /\ probe.fn = "scanInput"
    /\ probe' = [probe EXCEPT
                    !.fn = "getFilesInDirectory",
                    !.path = dir,
                    !.threw = getFilesInDirectoryThrows(dir, probe.patterns,
                                                        probe.useInc, probe.allow),
                    !.out = IF getFilesInDirectoryThrows(dir, probe.patterns,
                                                         probe.useInc, probe.allow)
                            THEN <<>>
                            ELSE getFilesInDirectory(dir, probe.patterns,
                                                     probe.useInc, probe.allow)]
    /\ UNCHANGED <<mainVars, ai>>

NextScan ==
    \/ ApplyGetAllCodeFiles
    \/ \E dir \in {Root} \cup Dirs : ApplyGetFilesInDirectory(dir)

SpecScan == InitScan /\ [][NextScan]_vars

(***************************************************************************)
(* SpecLoad: loadIgnorePatterns applied to bounded pattern files (every    *)
(* text over a small alphabet, a file that is absent, a file that cannot   *)
(* be read) under both settings of each list.                              *)
(***************************************************************************)

MaxFileLen == 4

PatternFileChars == {"a", " ", "#", LF}

UnreadablePatternFile == [exists |-> TRUE, readable |-> FALSE, content |-> <<>>]

PatternFileInputs ==
    {NoPatternFile, UnreadablePatternFile}
        \cup {PatternFile(text) : text \in SeqsUpTo(PatternFileChars, MaxFileLen)}

InitLoad ==
    /\ ProviderInit
    /\ probe = NoProbe
    /\ ai = NoAi
    /\ ignoreFile \in PatternFileInputs
    /\ includeFile \in IncludeFileStates \cup {UnreadablePatternFile}
    /\ config \in {c \in ConfigStates : c.summaryThreshold = DefaultConfig.summaryThreshold}

ApplyLoadIgnorePatterns ==
    /\ ~ignorePatternsLoaded
    /\ loadIgnorePatterns
    /\ UNCHANGED <<fs, ignoreFile, includeFile, config, cachedStats, cache, tree,
                   procs, edits, pending, hist, probe, ai>>

NextLoad == ApplyLoadIgnorePatterns

SpecLoad == InitLoad /\ [][NextLoad]_vars

(***************************************************************************)
(* SpecDecoration: LineCountDecorationProvider.provideFileDecoration for   *)
(* one path, over files of bounded line counts and bounded settings of     *)
(* fileLineCounter.thresholds.                                             *)
(***************************************************************************)

\* `${n}`: the decimal digits of a non-negative integer
Digits == <<"0", "1", "2", "3", "4", "5", "6", "7", "8", "9">>

RECURSIVE ToDecimal(_)
ToDecimal(n) ==
    IF n < 10 THEN <<Digits[n + 1]>>
    ELSE ToDecimal(n \div 10) \o <<Digits[(n % 10) + 1]>>

\* formatBadge(count)
formatBadge(count) ==
    IF count < 100 THEN ToDecimal(count)
    ELSE IF count < 1000 THEN ToDecimal(count \div 100) \o <<"H">>
    ELSE IF count < 10000 THEN ToDecimal(count \div 1000) \o <<"K">>
    ELSE IF count < 100000 THEN ToDecimal(count \div 1000) \o <<"K">>
    ELSE ToDecimal(count \div 1000000) \o <<"M">>

\* getThresholds(): [...thresholds].sort((a, b) => b.lines - a.lines),
\* a stable sort, greatest lines first.  The faulty variant leaves the
\* thresholds in the configured order.
RECURSIVE InsertThreshold(_, _)
InsertThreshold(sorted, t) ==
    IF sorted = <<>> THEN <<t>>
    ELSE IF Head(sorted).lines >= t.lines
         THEN <<Head(sorted)>> \o InsertThreshold(Tail(sorted), t)
         ELSE <<t>> \o sorted

RECURSIVE getThresholds(_)
getThresholdsUnsorted(thresholds) == thresholds
getThresholds(thresholds) ==
    IF thresholds = <<>> THEN <<>>
    ELSE InsertThreshold(getThresholds(SliceDropLast(thresholds, 1)),
                         thresholds[Len(thresholds)])

NoColor == "none"

\* for (const threshold of thresholds) { if (lineCount >= threshold.lines)
\* { color = threshold.color; break; } }
RECURSIVE FirstMetColor(_, _, _)
FirstMetColor(thresholds, lineCount, fallback) ==
    IF thresholds = <<>> THEN fallback
    ELSE IF lineCount >= Head(thresholds).lines THEN Head(thresholds).color
    ELSE FirstMetColor(Tail(thresholds), lineCount, fallback)

\* provideFileDecoration(uri): undefined for what is no file or cannot be
\* examined, otherwise the badge of the line count and the color of the
\* first threshold met
provideFileDecoration(filePath, entry, cacheMap, thresholds) ==
    IF entry.kind # "file" THEN [defined |-> FALSE, badge |-> <<>>, color |-> NoColor]
    ELSE LET lineCount == getLineCount(filePath, entry, cacheMap).value IN
         [defined |-> TRUE,
          badge |-> formatBadge(lineCount),
          color |-> FirstMetColor(getThresholds(thresholds), lineCount, NoColor)]

\* A text of n lines
TextOfLines(n) == IF n = 1 THEN <<Run("a", 1)>> ELSE <<Run("a", 1), Run(LF, n - 1)>>

BadgeLineCounts ==
    (1..105) \cup {499, 500, 999, 1000, 1001, 2500, 9999, 10000, 15000, 99999, 100000}

DecorationEntries ==
    {FileEntry(TextOfLines(n), TRUE) : n \in BadgeLineCounts}
        \cup {FileEntry(TextOfLines(1), FALSE), DirEntry, NoEntry}

ThresholdSettings ==
    {[lines |-> 100, color |-> "charts.green"],
     [lines |-> 500, color |-> "charts.yellow"],
     [lines |-> 500, color |-> "charts.blue"],
     [lines |-> 1000, color |-> "charts.red"]}

MaxThresholds == 2

InitDecoration ==
    /\ MainAtRest
    /\ \E e \in DecorationEntries, ts \in SeqsUpTo(ThresholdSettings, MaxThresholds) :
        probe = [NoProbe EXCEPT !.fn = "decorationInput", !.path = Path_a_ts,
                                !.entry = e, !.patterns = ts]

ApplyProvideFileDecoration ==
    /\ probe.fn = "decorationInput"
    /\ probe' = [probe EXCEPT
                    !.fn = "provideFileDecoration",
                    !.out = provideFileDecoration(probe.path, probe.entry, probe.cache,
                                                  probe.patterns)]
    /\ UNCHANGED <<mainVars, ai>>

\* The 'largeFiles' case of getChildItems for one file of the snapshot's
\* largeFiles: the icon color is the color of the first threshold met,
\* 'charts.yellow' when none is met
LargeFileFallbackColor == "charts.yellow"

largeFileItem(file, thresholds) ==
    [defined |-> TRUE,
     badge |-> <<>>,
     color |-> FirstMetColor(getThresholds(thresholds), file.lineCount,
                             LargeFileFallbackColor)]

\* The probed file is counted by countLines and is among the large files
\* of the snapshot under the configured summary threshold
ApplyLargeFileItem ==
    LET file == [path |-> probe.path, name |-> basename(probe.path),
                 lineCount |-> countLines(probe.entry).value]
    IN /\ probe.fn = "decorationInput"
       /\ probe.entry.kind = "file"
       /\ IsLarge(file, getSummaryThreshold(config))
       /\ probe' = [probe EXCEPT !.fn = "largeFileItem",
                                 !.out = largeFileItem(file, probe.patterns)]
       /\ UNCHANGED <<mainVars, ai>>

NextDecoration == ApplyProvideFileDecoration \/ ApplyLargeFileItem

SpecDecoration == InitDecoration /\ [][NextDecoration]_vars

(***************************************************************************)
(* The recommendations and the summary items of the side bar.              *)
(***************************************************************************)

\* const veryLargeFiles = stats.largeFiles.filter(f => f.lineCount >= 2000)
VeryLargeLines == 2000

VeryLargeFilesOf(stats) ==
    LET Keep(f) == f.lineCount >= VeryLargeLines
    IN SelectSeq(stats.largeFiles, Keep)

\* if (stats.averageLines > 300)
HighAverageNever(averageLines) == FALSE
HighAverage(averageLines) == averageLines > 300

RecItem(kind, name, count, threshold) ==
    [kind |-> kind, name |-> name, count |-> count, threshold |-> threshold]

\* getRecommendations(stats), threshold being the value getSummaryThreshold()
\* returns when it is called: one item per very large file of largeFiles,
\* one item when largeFiles has three entries or more, one item when the
\* average is high, and the 'noIssues' item when there is none of these
getRecommendations(stats, threshold) ==
    LET veryLargeFiles == VeryLargeFilesOf(stats)
        splitting == [k \in 1..Len(veryLargeFiles) |->
                         RecItem("considerSplitting", veryLargeFiles[k].name,
                                 veryLargeFiles[k].lineCount, 0)]
        exceed == IF Len(stats.largeFiles) >= 3
                  THEN <<RecItem("filesExceed", <<>>, Len(stats.largeFiles), threshold)>>
                  ELSE <<>>
        average == IF HighAverage(stats.averageLines)
                   THEN <<RecItem("highAverageSize", <<>>, stats.averageLines, 0)>>
                   ELSE <<>>
        recommendations == splitting \o exceed \o average
    IN IF Len(recommendations) = 0
       THEN <<RecItem("noIssues", <<>>, 0, 0)>>
       ELSE recommendations

\* The 'summary' case of getChildItems: the threshold of the caption of the
\* 'Large Files (>T)' item
largeFilesCaption(threshold) == threshold

\* Snapshots of up to MaxRecFiles files with chosen line counts, under a
\* chosen summary threshold setting
MaxRecFiles == 3

RecLineCounts == {10, 400, 2000, 2500}

RecThresholdSettings == {0, 500, 3000}

RecPaths == <<Path_a_ts, Path_src_b_ts, Path_out_c_js>>

RecFiles(counts) ==
    [k \in 1..Len(counts) |->
        [path |-> RecPaths[((k - 1) % Len(RecPaths)) + 1],
         name |-> ToDecimal(k) \o basename(RecPaths[((k - 1) % Len(RecPaths)) + 1]),
         lineCount |-> counts[k]]]

InitRecs ==
    /\ ProviderInit
    /\ ai = NoAi
    /\ ignoreFile = NoPatternFile
    /\ includeFile = NoPatternFile
    /\ \E t \in RecThresholdSettings : config = [DefaultConfig EXCEPT !.summaryThreshold = t]
    /\ \E counts \in SeqsUpTo(RecLineCounts, MaxRecFiles) :
        probe = [NoProbe EXCEPT !.fn = "recsInput", !.cache = RecFiles(counts)]

\* The snapshot getWorkspaceStats builds from the probed files under the
\* configured summary threshold
ProbedStats ==
    BuildStats(0, probe.cache, getSummaryThreshold(config),
               [files |-> <<>>, cfgThreshold |-> config.summaryThreshold,
                deny |-> <<>>, allow |-> <<>>, useInc |-> FALSE])

ApplyGetRecommendations ==
    /\ probe.fn = "recsInput"
    /\ probe' = [probe EXCEPT
                    !.fn = "getRecommendations",
                    !.out = getRecommendations(ProbedStats, getSummaryThreshold(config))]
    /\ UNCHANGED <<mainVars, ai>>

NextRecs == ApplyGetRecommendations

SpecRecs == InitRecs /\ [][NextRecs]_vars

(***************************************************************************)
(* Claims about the line counter.                                          *)
(***************************************************************************)

\* Number of line-feed characters of a content
RECURSIVE LineFeeds(_)
LineFeeds(content) ==
    IF content = <<>> THEN 0
    ELSE (IF Head(content).ch = LF THEN Head(content).n ELSE 0)
             + LineFeeds(Tail(content))

CanRead(entry) == entry.kind = "file" /\ entry.readable

\* C7: countLines never throws and never returns a negative value: it returns
\* 1 for a file with empty content and 0 for a file that cannot be read.
C7_CountLinesTotal ==
    probe.fn = "countLines" =>
        /\ ~probe.out.threw
        /\ probe.out.value >= 0
        /\ (CanRead(probe.entry) /\ probe.entry.content = <<>> => probe.out.value = 1)
        /\ (~CanRead(probe.entry) => probe.out.value = 0)

\* C7 witness: countLines has been applied to a file that cannot be read
C7_Witness ==
    /\ probe.fn = "countLines"
    /\ probe.entry.kind = "file"
    /\ ~probe.entry.readable
    /\ probe.out.value = 0

\* C8: for every readable file, countLines (and getLineCount when it reads the
\* file) returns the number of line feeds of the content plus one.
C8_LineFeedsPlusOne ==
    /\ (probe.fn = "countLines" /\ CanRead(probe.entry)) =>
           probe.out.value = LineFeeds(probe.entry.content) + 1
    /\ (probe.fn = "getLineCount" /\ CanRead(probe.entry) /\ ~probe.out.hit) =>
           probe.out.value = LineFeeds(probe.entry.content) + 1

\* C8 witness: a readable file whose content ends in a line feed has been
\* counted; its two terminated lines count as three
C8_Witness ==
    /\ probe.fn = "countLines"
    /\ probe.entry = FileEntry(<<Run("a", 1), Run(LF, 2)>>, TRUE)
    /\ probe.out.value = 3

(***************************************************************************)
(* Claims about the path filter.                                           *)
(***************************************************************************)

\* C9: with the deny pattern *.map in the list, isIgnored (when it returns)
\* is true for every path whose file name ends with .map; with *.map the
\* only pattern, it is false for every other path (mapper.js among them).
C9_StarMap ==
    probe.fn = "isIgnored" =>
        LET endsWithMap == EndsWith(basename(probe.path), <<".", "m", "a", "p">>) IN
        /\ (InSeq(Pat_star_map, probe.patterns) /\ endsWithMap /\ ~probe.threw)
               => probe.out = TRUE
        /\ (probe.patterns = <<Pat_star_map>> /\ ~endsWithMap) => probe.out = FALSE

\* C9 witness: foo.js.map has been tested against *.map and is ignored
C9_Witness ==
    /\ probe.fn = "isIgnored"
    /\ probe.patterns = <<Pat_star_map>>
    /\ probe.path = Path_foo_js_map
    /\ probe.out = TRUE

\* The glob reading of a pattern that C10 states: ** is any run of
\* characters, * is any run of characters other than "/", every other
\* character stands for itself.
RECURSIVE GlobAtoms(_)
GlobAtoms(p) ==
    IF p = <<>> THEN <<>>
    ELSE IF StartsWith(p, <<"*", "*">>)
         THEN <<[kind |-> "any", ch |-> "*", star |-> TRUE]>> \o GlobAtoms(SliceFrom(p, 2))
    ELSE IF Head(p) = "*"
         THEN <<[kind |-> "notslash", ch |-> "*", star |-> TRUE]>> \o GlobAtoms(Tail(p))
    ELSE <<[kind |-> "lit", ch |-> Head(p), star |-> FALSE]>> \o GlobAtoms(Tail(p))

GlobMatches(pattern, path) == RegexMatch(GlobAtoms(pattern), path)

DenyPatternCovers(pattern, path) ==
    LET cp == CleanPattern(pattern) IN
    \/ path = cp
    \/ StartsWith(path, cp \o <<"/">>)
    \/ GlobMatches(cp, path)

\* C10: isIgnored returns true for every path that equals a deny pattern, is
\* nested under a directory named by one, or matches one as a glob (* within
\* a segment, ** across segments, wherever the wildcard occurs).  Stated for
\* the calls that return.
C10_GlobCovered ==
    (probe.fn = "isIgnored"
        /\ ~probe.threw
        /\ \E i \in 1..Len(probe.patterns) : DenyPatternCovers(probe.patterns[i], probe.path))
    => probe.out = TRUE

(***************************************************************************)
(* Claims about the whitelist.                                             *)
(***************************************************************************)

\* Some pattern of the list matches the path under the rule forms of
\* isIncluded
SomeAllowPatternMatches(path, patterns) ==
    \E i \in 1..Len(patterns) : IncludedByPattern(path, basename(path), patterns[i])

\* C11: isIncluded returns true for every path when the whitelist is not
\* active; when it is active, isIncluded returns true if and only if the path
\* matches at least one loaded allow pattern, so with no loaded patterns it
\* returns false.
C11_IncludedIffAllowMatches ==
    probe.fn = "isIncluded" =>
        /\ ~probe.threw
        /\ ~probe.useInc => probe.out = TRUE
        /\ probe.useInc =>
               (probe.out = TRUE <=> SomeAllowPatternMatches(probe.path, probe.patterns))

\* C12: allow patterns are matched under the same rule forms as deny
\* patterns: with a single pattern p, a path is matched by p as the only allow
\* pattern (isIncluded, whitelist active) if and only if it is matched by p as
\* the only deny pattern (isIgnored).  Stated for the calls that return.
C12_AllowMatchesAsDeny ==
    (/\ probe.fn = "isIncluded"
     /\ probe.useInc
     /\ Len(probe.patterns) = 1
     /\ ~probe.threw
     /\ ~isIgnoredThrows(probe.path, probe.patterns))
    => (probe.out = TRUE <=> isIgnored(probe.path, probe.patterns))

\* The lists that hold the same patterns as a list, in every order
PermutationsOf(patterns) ==
    LET n == Len(patterns)
        Orders == {f \in [1..n -> 1..n] : \A j, k \in 1..n : f[j] = f[k] => j = k}
    IN {[k \in 1..n |-> patterns[f[k]]] : f \in Orders}

\* C18: the order of the patterns is irrelevant: isIgnored gives the same
\* outcome for a path under every permutation of the deny list, and so does
\* isIncluded under every permutation of the allow list.
C18_OrderIrrelevant ==
    /\ probe.fn = "isIgnored" =>
           \A q \in PermutationsOf(probe.patterns) :
               /\ isIgnoredThrows(probe.path, q) = probe.threw
               /\ isIgnored(probe.path, q) = probe.out
    /\ probe.fn = "isIncluded" =>
           \A q \in PermutationsOf(probe.patterns) :
               /\ isIncludedThrows(probe.path, probe.useInc, q) = probe.threw
               /\ isIncluded(probe.path, probe.useInc, q) = probe.out

(***************************************************************************)
(* Claims about the workspace walk and the files tree.                     *)
(***************************************************************************)

\* The lines of a pattern list whose parentheses balance, which are the
\* lines every translation turns into a regular expression that compiles
WellFormedLines(patterns) ==
    SelectSeq(patterns, LAMBDA pattern : ParenDepth(pattern, 0) = 0)

\* C13: a pattern line that cannot be turned into a valid regular expression
\* is ignored silently: the walk of getAllCodeFiles returns exactly the files
\* it returns without the line, and getFilesInDirectory of a directory that
\* can be read does not throw and returns exactly the items it returns
\* without the line.
C13_MalformedLineAsAbsent ==
    /\ probe.fn = "getAllCodeFiles" =>
           probe.out = getAllCodeFiles(WellFormedLines(probe.patterns), probe.useInc,
                                       WellFormedLines(probe.allow))
    /\ (probe.fn = "getFilesInDirectory" /\ ~readdirSyncThrows(probe.path)) =>
           /\ ~probe.threw
           /\ probe.out = getFilesInDirectory(probe.path,
                                              WellFormedLines(probe.patterns),
                                              probe.useInc,
                                              WellFormedLines(probe.allow))

\* A file the walk is to report: a regular file with a code extension
\* (compared in lower case), not denied, under directories that are not denied
\* and can be read, and matched by the allow list when the whitelist is active
Eligible(p, deny, useInc, allow) ==
    /\ EntryOf(p).kind = "file"
    /\ toLowerCase(extname(p)) \in codeExtensions
    /\ \A q \in {p} \cup Ancestors(p) : ~isIgnored(q, deny)
    /\ \A d \in Ancestors(p) : EntryOf(d).kind = "dir" /\ EntryOf(d).readable
    /\ useInc => isIncluded(p, TRUE, allow)

\* The walk was made with pattern lists that hold no malformed line
WalkedWithWellFormedLists ==
    /\ probe.fn = "getAllCodeFiles"
    /\ WellFormedLines(probe.patterns) = probe.patterns
    /\ WellFormedLines(probe.allow) = probe.allow

\* C14: an entry that cannot be examined or a directory that cannot be read
\* is skipped silently: the walk ends without an error and every file that
\* is accessible and eligible, later siblings of the failing entry included,
\* is in its result.
C14_FailingEntrySkipped ==
    WalkedWithWellFormedLists =>
        /\ ~probe.threw
        /\ \A p \in CodeFiles \cup ExtraFiles :
               Eligible(p, probe.patterns, probe.useInc, probe.allow)
                   => InSeq(p, probe.out)

\* C16: the files of a walk are exactly the eligible files, each of them
\* exactly once.
C16_ExactlyEligibleOnce ==
    WalkedWithWellFormedLists =>
        /\ \A p \in CodeFiles \cup ExtraFiles :
               InSeq(p, probe.out)
                   <=> Eligible(p, probe.patterns, probe.useInc, probe.allow)
        /\ \A j, k \in 1..Len(probe.out) : probe.out[j] = probe.out[k] => j = k

(***************************************************************************)
(* Claims about concurrent calls and the loading of the pattern files.     *)
(***************************************************************************)

\* The calls of getWorkspaceStats that are between their cache miss and the
\* assignment of the snapshot
ScansInProgress == {i \in Procs : procs[i].pc \in {"walk", "count"}}

\* C15: no two workspace scans are in progress at once: a call of
\* getWorkspaceStats made while another is suspended at an await starts no
\* walk and no count of its own.
C15_OneScanAtATime == Cardinality(ScansInProgress) <= 1

\* C17: the pattern files are loaded once per snapshot cycle: since the last
\* refresh() they have been read at most once, however many calls were made,
\* and a snapshot that has been stored since the last refresh() was built
\* after the files were read again.
C17_LoadedOncePerCycle ==
    /\ hist.loads <= 1
    /\ cachedStats # Null => hist.loads = 1

\* The position of the k-th line feed of a text; 0 for k = 0 and one past
\* the end of the text when it has fewer line feeds
NthLineFeed(content, k) ==
    LET feeds == {i \in 1..Len(content) : content[i] = LF}
    IN IF k = 0 THEN 0
       ELSE IF k > Cardinality(feeds) THEN Len(content) + 1
       ELSE CHOOSE i \in feeds : Cardinality({j \in feeds : j < i}) = k - 1

\* The lines of a text: what lies between consecutive line feeds
FileLines(content) ==
    [k \in 1..(Cardinality({i \in 1..Len(content) : content[i] = LF}) + 1) |->
        SubSeq(content, NthLineFeed(content, k - 1) + 1, NthLineFeed(content, k) - 1)]

\* A line without the white space around it
Stripped(l) ==
    LET inked == {i \in 1..Len(l) : l[i] \notin {" ", "\t", "\r"}}
    IN IF inked = {} THEN <<>>
       ELSE SubSeq(l, CHOOSE i \in inked : \A j \in inked : i <= j,
                      CHOOSE i \in inked : \A j \in inked : j <= i)

\* What a pattern file is to contribute: its stripped lines in order, the
\* empty ones and the ones that begin with # left out; nothing when the file
\* is absent or cannot be read
Contribution(file) ==
    IF ~file.exists \/ ~file.readable THEN <<>>
    ELSE LET lines == FileLines(file.content)
             stripped == [k \in 1..Len(lines) |-> Stripped(lines[k])]
         IN SelectSeq(stripped, LAMBDA l : l # <<>> /\ l[1] # "#")

\* C19: loadIgnorePatterns completes without an error and each list that is
\* active holds exactly the contribution of its pattern file: the lines of
\* the file after trimming, without the empty lines and the lines that begin
\* with #, and no pattern for a file that is absent or cannot be read.
C19_FileContribution ==
    ignorePatternsLoaded =>
        /\ config.ignoreListActive => ignorePatterns = Contribution(ignoreFile)
        /\ config.whitelistActive => includePatterns = Contribution(includeFile)

\* C19 witness: a readable deny file that holds a comment line and a padded
\* line has been loaded and contributes the trimmed line alone, next to an
\* allow file that cannot be read and contributes nothing
C19_Witness ==
    /\ ignorePatternsLoaded
    /\ config.ignoreListActive
    /\ config.whitelistActive
    /\ ignoreFile = PatternFile(<<"#", LF, " ", "a">>)
    /\ ignorePatterns = << <<"a">> >>
    /\ includeFile = UnreadablePatternFile
    /\ includePatterns = <<>>

(***************************************************************************)
(* Claims about the AI analysis.                                           *)
(***************************************************************************)

\* C20: when the endpoint answers with a non-success status, analyzeWithAI
\* shows exactly one error notification, opens no analysis panel and sends no
\* further request; no invocation sends more than one request.
C20_NonSuccessOneError ==
    /\ ai.requests <= 1
    /\ (ai.pc = "done" /\ ai.response = "notOk") =>
           /\ ai.errors = 1
           /\ ai.panels = 0
           /\ ai.requests = 1

\* C20 witness: an invocation with the OpenAI provider and a key has sent
\* its request, was answered with a non-success status and has returned
C20_Witness ==
    /\ ai.pc = "done"
    /\ ai.response = "notOk"
    /\ getAiProvider(ai.settings) = "OpenAI"
    /\ ai.requests = 1
    /\ ai.errors = 1

\* C21: when no API key is configured for the selected provider,
\* analyzeWithAI shows a single notification and returns without computing
\* the workspace statistics, without sending a request and without opening
\* an analysis panel.
C21_NoKeyOneNotification ==
    (ai.pc # "idle" /\ getApiKey(ai.settings, getAiProvider(ai.settings)) = <<>>) =>
        /\ ai.pc \in {"warned", "done"}
        /\ ai.warnings + ai.errors = 1
        /\ ai.requests = 0
        /\ ai.panels = 0
        /\ cachedStats = Null
        /\ hist.loads = 0

\* C21 witness: the provider is OpenAI, the general key is blank and only the
\* legacy Gemini key is set; analyzeWithAI has shown its warning and returned
C21_Witness ==
    /\ ai.pc = "done"
    /\ ai.settings.aiProvider = "OpenAI"
    /\ ai.settings.apiKey = <<" ">>
    /\ ai.settings.geminiApiKey = <<"g">>
    /\ ai.warnings = 1
    /\ ai.requests = 0

\* A setting that holds nothing but white space
Blank(s) == \A i \in 1..Len(s) : s[i] \in {" ", "\t", "\r", "\n"}

\* C30: getApiKey returns the general apiKey setting whenever it is not
\* blank, for every provider; when it is blank, the legacy geminiApiKey is
\* returned only if the provider is Gemini and that key is not blank, and
\* otherwise no key is returned.
C30_KeySelection ==
    ai.pc # "idle" =>
        LET provider == getAiProvider(ai.settings) IN
        /\ ~Blank(ai.settings.apiKey) => ai.apiKey = ai.settings.apiKey
        /\ (/\ Blank(ai.settings.apiKey)
            /\ provider = "Gemini"
            /\ ~Blank(ai.settings.geminiApiKey)) => ai.apiKey = ai.settings.geminiApiKey
        /\ (/\ Blank(ai.settings.apiKey)
            /\ (provider # "Gemini" \/ Blank(ai.settings.geminiApiKey))) =>
               (ai.apiKey = <<>> /\ ai.warnings = 1)

\* C30 witness: Anthropic is selected, the general key is blank and the
\* legacy Gemini key is set: no key is returned
C30_Witness ==
    /\ ai.pc # "idle"
    /\ ai.settings.aiProvider = "Anthropic"
    /\ ai.settings.apiKey = <<" ">>
    /\ ai.settings.geminiApiKey = <<"g">>
    /\ ai.apiKey = <<>>

(***************************************************************************)
(* Claims about the explorer decoration.                                   *)
(***************************************************************************)

\* The line count the decoration of the probed entry is computed from
ProbedLineCount == getLineCount(probe.path, probe.entry, probe.cache).value

\* The number a run of decimal digits stands for
RECURSIVE DigitsValue(_)
DigitsValue(ds) ==
    IF ds = <<>> THEN 0
    ELSE 10 * DigitsValue(SliceDropLast(ds, 1))
             + (CHOOSE d \in 0..9 : Digits[d + 1] = ds[Len(ds)])

\* A badge is the decimal number n followed by the given suffix
IsBadge(badge, n, suffix) ==
    LET k == Len(badge) - Len(suffix) IN
    /\ k >= 1
    /\ SubSeq(badge, k + 1, Len(badge)) = suffix
    /\ \A i \in 1..k : badge[i] \in Range(Digits)
    /\ (k > 1 => badge[1] # "0")
    /\ DigitsValue(SubSeq(badge, 1, k)) = n

\* C22: formatBadge follows the badge table of the README for every count:
\* 0-99 gives the full number, 100-999 the hundreds followed by H, 1000-9999
\* the thousands followed by K, and every count of 10000 or more the
\* thousands followed by K.
C22_BadgeTable ==
    (probe.fn = "provideFileDecoration" /\ probe.out.defined) =>
        LET c == ProbedLineCount
            badge == probe.out.badge
        IN /\ c < 100 => IsBadge(badge, c, <<>>)
           /\ (100 <= c /\ c < 1000) => IsBadge(badge, c \div 100, <<"H">>)
           /\ c >= 1000 => IsBadge(badge, c \div 1000, <<"K">>)

\* The line count an item of the large files list is computed from
ProbedCountLines == countLines(probe.entry).value

\* The thresholds of a setting that a line count meets
MetThresholds(thresholds, c) == {i \in 1..Len(thresholds) : thresholds[i].lines <= c}

\* No two thresholds of a setting share their lines value
DistinctLines(thresholds) ==
    \A j, k \in 1..Len(thresholds) : thresholds[j].lines = thresholds[k].lines => j = k

\* The color rule for a line count c under a threshold setting
ColorRule(color, thresholds, c) ==
    LET met == MetThresholds(thresholds, c) IN
    /\ met = {} => color = NoColor
    /\ met # {} =>
           \E i \in met : /\ \A j \in met : thresholds[j].lines <= thresholds[i].lines
                          /\ color = thresholds[i].color

\* C23: the color of a file is the color of the configured threshold with
\* the greatest lines value that is at most the line count of the file, in
\* whatever order the thresholds are configured, and there is no color when
\* the line count is below every configured threshold.  Stated for the
\* explorer decoration and for the items of the large files list; the order
\* is compared for settings whose lines values are distinct.
C23_GreatestThresholdMet ==
    /\ (probe.fn = "provideFileDecoration" /\ probe.out.defined) =>
           /\ ColorRule(probe.out.color, probe.patterns, ProbedLineCount)
           /\ DistinctLines(probe.patterns) =>
                  \A q \in PermutationsOf(probe.patterns) :
                      provideFileDecoration(probe.path, probe.entry, probe.cache, q).color
                          = probe.out.color
    /\ probe.fn = "largeFileItem" =>
           ColorRule(probe.out.color, probe.patterns, ProbedCountLines)

(***************************************************************************)
(* Claims about the memoization of line counts.                            *)
(***************************************************************************)

\* C24: line counts are memoized by path: when the line count of a path is
\* requested twice with no file system event in between, the file is not
\* read again, neither by getLineCount for the explorer badges nor by
\* countLines for the snapshot and the files tree.
C24_MemoizedByPath == hist.tracking => (~hist.recounted /\ ~hist.rebadged)

(***************************************************************************)
(* Claims about the recommendations.                                       *)
(***************************************************************************)

HasKind(recs, kind) == \E k \in DOMAIN recs : recs[k].kind = kind

\* C25: getRecommendations never returns an empty list, and the 'No issues
\* detected' item is present exactly when largeFiles has no file of 2000
\* lines or more, largeFiles has fewer than 3 entries and averageLines is at
\* most 300; it is then the only item.
C25_NoIssuesExactlyWhenClean ==
    probe.fn = "getRecommendations" =>
        LET recs == probe.out
            stats == ProbedStats
            clean == /\ \A k \in DOMAIN stats.largeFiles :
                            stats.largeFiles[k].lineCount < 2000
                     /\ Len(stats.largeFiles) < 3
                     /\ stats.averageLines <= 300
        IN /\ Len(recs) > 0
           /\ HasKind(recs, "noIssues") <=> clean
           /\ HasKind(recs, "noIssues") => Len(recs) = 1

C25_Witness ==
    /\ probe.fn = "getRecommendations"
    /\ Len(probe.cache) = 2
    /\ Len(ProbedStats.largeFiles) = 0
    /\ HasKind(probe.out, "noIssues")

\* C29: every file of the snapshot that has 2000 lines or more yields
\* exactly one 'Consider splitting <name>' recommendation, whatever summary
\* threshold is configured.
C29_SplitEveryVeryLargeFile ==
    probe.fn = "getRecommendations" =>
        \A k \in DOMAIN probe.cache :
            probe.cache[k].lineCount >= 2000 =>
                Cardinality({j \in DOMAIN probe.out :
                                /\ probe.out[j].kind = "considerSplitting"
                                /\ probe.out[j].name = probe.cache[k].name}) = 1

(***************************************************************************)
(* Claims about the snapshot and what the view shows of it.                *)
(***************************************************************************)

\* C26: a snapshot computed by a scan that began before a refresh() is never
\* stored after that refresh nor returned to a later call, so that whenever
\* cachedStats is non-null the pattern-loaded flag is true: refresh() clears
\* both, and a scan that begins after it loads the patterns before it
\* stores its snapshot.
C26_NoStaleSnapshot == cachedStats # Null => ignorePatternsLoaded

\* The threshold against which the largeFiles of a snapshot were filtered
FilterThresholdOf(stats) ==
    getSummaryThreshold([summaryThreshold |-> stats.g.cfgThreshold])

\* C27: the threshold the view shows always equals the threshold that
\* produced the largeFiles of the snapshot it shows, also after the
\* summaryThreshold setting has changed without a file system event: when
\* the summary or the recommendations are rendered from a snapshot, the T of
\* the 'Large Files (>T)' caption and of the 'N files exceed T lines'
\* recommendation is the threshold that snapshot was filtered with.
C27_ShownThresholdIsFilterThreshold ==
    [][\A i \in Procs :
          (procs[i].pc = "render" /\ procs'[i].pc = "idle") =>
              LET stats == procs[i].ret
                  threshold == getSummaryThreshold(config)
                  recs == getRecommendations(stats, threshold)
              IN /\ largeFilesCaption(threshold) = FilterThresholdOf(stats)
                 /\ \A k \in DOMAIN recs :
                        recs[k].kind = "filesExceed" =>
                            recs[k].threshold = FilterThresholdOf(stats)]_vars

\* getFilesInDirectory(dirname(q)) returns and lists q
ListedInTree(q, deny, useInc, allow) ==
    /\ ~getFilesInDirectoryThrows(dirname(q), deny, useInc, allow)
    /\ InSeq(q, getFilesInDirectory(dirname(q), deny, useInc, allow))

\* C28: the files tree and the snapshot agree: every file that the walk of
\* getAllCodeFiles counts into the snapshot is reachable in the files tree
\* by expanding directories from the files root, i.e. getFilesInDirectory
\* lists the file in its directory and lists each of its ancestor
\* directories in theirs, under every deny list, allow list and whitelist
\* setting.
C28_SnapshotFilesReachableInTree ==
    probe.fn = "getAllCodeFiles" =>
        \A k \in DOMAIN probe.out :
            \A q \in {probe.out[k]} \cup Ancestors(probe.out[k]) :
                ListedInTree(q, probe.patterns, probe.useInc, probe.allow)

====
